---- MODULE Spec2Model ----
(***************************************************************************)
(* Position Keeper of willipe53/fullbor-app.                               *)
(*                                                                         *)
(* The model covers the lock table (lambda_locks) and its three store      *)
(* operations, the HTTP-triggered handler of src/lambdas/PositionKeeper.py *)
(* (status / stop / start commands racing across Lambda containers), the   *)
(* sandbox generator, the queue drain and the orphan sweep, the CRUD        *)
(* handlers that write transactions and send their messages, and the       *)
(* poller of src/position_keeper/positionkeeper.py with its idle shutdown. *)
(*                                                                         *)
(* Time is counted in minutes; dates are day numbers.                      *)
(***************************************************************************)
EXTENDS Integers, FiniteSets, Sequences, Bags, TLC

\* ------------------------------------------------------------------------
\* Bounds of the model
\* ------------------------------------------------------------------------
MaxTime == 5
MaxCalls == 3
MaxReq == 3
MaxTx == 1
MaxSent == 2
MaxGenTx == 2
MaxGen == 2
MaxClock == 60
MaxStat == 4

\* ------------------------------------------------------------------------
\* Program constants
\* ------------------------------------------------------------------------
\* timedelta(minutes=5) added to utcnow() by the start command
LockTTL == 5

\* LOCK_ID of lambda_handler
LOCK_ID == "v2 Position Keeper"

\* Python's None
None == [tag |-> "None"]

\* SQL's NULL in an integer or date column (ids and day numbers are positive)
NULL == 0 - 1

\* The derived table seq_table of the bulk INSERT: t1 x t2 x t3, ten rows each,
\* numbered by @row from 0
SeqRows == 1000

VARIABLES
    now,            \* datetime.utcnow(), in minutes
    lambda_locks,   \* rows of table lambda_locks
    position_keepers,   \* rows of table position_keepers, in insertion order (id = index)
    position_sandbox,   \* table position_sandbox: per position_keeper_id, the bag of its rows
    transactions,       \* rows of table transactions, in insertion order (id = index)
    queue,              \* messages of the SQS queue, each visible or in flight
    sent,               \* number of messages ever sent to the queue
    invocation,         \* per Lambda container: the locals of the running lambda_handler
    response,           \* what lambda_handler returns in this step, and to which request
    transaction_types_cache,    \* per Lambda container: the global _transaction_types_cache
    nextReq,            \* number of invocations so far (context.aws_request_id)
    lastCall,       \* the most recent call of a lock store operation and what it returned
    lockHist,       \* per lock_id: the kind of the last acquire/release call on it
    winners,        \* per lock_id: the <<call, caller>> whose acquire returned True since the row was last absent
    losers,         \* per lock_id: the <<call, caller>> whose acquire returned False since the row was last absent
    lastGen,        \* the most recent direct call of generate_sandbox_rows and what it returned
    transaction_types,  \* rows of table transaction_types
    poller              \* the process of src/position_keeper/positionkeeper.py: its globals and where it is

lockVars == <<lambda_locks, lastCall, lockHist, winners, losers, lastGen>>
callVars == <<lastCall, lockHist, winners, losers, lastGen>>
storeVars == <<position_keepers, position_sandbox, transactions, queue, sent>>
handlerVars == <<invocation, transaction_types_cache, nextReq>>
workerVars == <<transaction_types, poller>>
vars == <<now, lambda_locks, lastCall, lockHist, winners, losers, lastGen,
          position_keepers, position_sandbox, transactions, queue, sent,
          invocation, response, transaction_types_cache, nextReq,
          transaction_types, poller>>

\* ------------------------------------------------------------------------
\* Lock store: src/lambdas/PositionKeeper.py, lines 53-102
\* ------------------------------------------------------------------------
LockRow(lock_id, holder, expires_at) ==
    [lock_id |-> lock_id, holder |-> holder, expires_at |-> expires_at]

RowsOf(locks, lock_id) == {r \in locks : r.lock_id = lock_id}

\* The primary key of lambda_locks: INSERT raises IntegrityError when a row
\* with the same lock_id is present, whatever its expires_at.
IntegrityErrorNoPK(locks, lock_id) == FALSE
IntegrityError(locks, lock_id) == RowsOf(locks, lock_id) # {}

\* acquire_lock: the return value
acquire_lock(locks, lock_id, holder, expires_at) ==
    ~IntegrityError(locks, lock_id)

\* acquire_lock: the table after the INSERT
acquire_lock_rowsReplace(locks, lock_id, holder, expires_at) ==
    {r \in locks : r.lock_id # lock_id} \cup {LockRow(lock_id, holder, expires_at)}
acquire_lock_rows(locks, lock_id, holder, expires_at) ==
    IF IntegrityError(locks, lock_id)
    THEN locks
    ELSE locks \cup {LockRow(lock_id, holder, expires_at)}

\* release_lock: the table after the DELETE
release_lock_rowsKeepExpired(locks, lock_id, t) ==
    {r \in locks : r.lock_id # lock_id \/ r.expires_at <= t}
release_lock_rows(locks, lock_id, t) ==
    {r \in locks : r.lock_id # lock_id}

\* release_lock: the return value, cursor.rowcount > 0
release_lock(locks, lock_id, t) ==
    Cardinality(locks \ release_lock_rows(locks, lock_id, t)) > 0

\* get_lock_status: fetchone() of the SELECT, with is_active computed from utcnow()
is_activeInclusive(expires_at, t) == expires_at >= t
is_active(expires_at, t) == expires_at > t

get_lock_statusOtherLock(locks, lock_id, t) == None
get_lock_status(locks, lock_id, t) ==
    IF RowsOf(locks, lock_id) = {}
    THEN None
    ELSE LET result == CHOOSE r \in RowsOf(locks, lock_id) : TRUE
         IN  [holder |-> result.holder,
              expires_at |-> result.expires_at,
              is_active |-> is_active(result.expires_at, t)]

\* ------------------------------------------------------------------------
\* Tables and queue
\* ------------------------------------------------------------------------
\* the Lambda containers
Inst == {1, 2}

\* Rows of table transaction_types: type 1 has position_keeping_actions in its
\* properties, type 2 has none.
TransactionTypeRow(id) ==
    IF id = 1
    THEN [transaction_type_id |-> 1, transaction_type_name |-> "Buy",
          position_keeping_actions |-> <<"action">>]
    ELSE [transaction_type_id |-> id, transaction_type_name |-> "Memo",
          position_keeping_actions |-> <<>>]

\* src/position_keeper/datacache.py: of the tables the poller caches
\* (positionkeeper.py lines 412-413), the two that process_transaction reads
\* before it branches on the status
CacheTables == {"transaction_types", "users"}

\* a Python dict is a function on its keys: the empty dict, and d[k] = v
EmptyDict == [k \in {} |-> NULL]
Put(d, k, v) == [x \in DOMAIN d \cup {k} |-> IF x = k THEN v ELSE d[x]]

\* DataCache.__init__, lines 25-26: cache = {} and last_refresh = {}; a table
\* that was never loaded has no key, and cache.get(table) is None
NeverLoaded == [cache |-> EmptyDict, last_refresh |-> EmptyDict]

\* the poller process is not running
PollerOff ==
    [pc |-> "off", messages |-> <<>>, last_message_time |-> 0, cache |-> NeverLoaded,
     position_keeper_user_id |-> NULL, log |-> [id |-> 0, outcome |-> "none"],
     stopped |-> FALSE]

\* both transaction types exist and no poller runs
InitWorkers ==
    /\ transaction_types = {TransactionTypeRow(1), TransactionTypeRow(2)}
    /\ poller = PollerOff

InitStore ==
    /\ position_keepers = <<>>
    /\ position_sandbox = EmptyBag
    /\ transactions = <<>>
    /\ queue = {}
    /\ sent = 0

\* ------------------------------------------------------------------------
\* Sandbox generator: generate_sandbox_rows, lines 235-379
\* ------------------------------------------------------------------------
SetMin(S) == CHOOSE x \in S : \A y \in S : x <= y
SetMax(S) == CHOOSE x \in S : \A y \in S : x >= y

Rows(table) == {table[k] : k \in 1..Len(table)}

\* Step 1: the UNION of trade_date and settle_date; MIN and MAX skip NULLs
all_dates(txs) ==
    ({t.trade_date : t \in Rows(txs)} \cup {t.settle_date : t \in Rows(txs)}) \ {NULL}

\* Step 2 and the entities subquery of the INSERT
entity_permutations(txs) ==
    {<<t.portfolio_entity_id, t.instrument_entity_id>> : t \in Rows(txs)}
        \cup {<<t.contra_entity_id, t.instrument_entity_id>> : t \in Rows(txs)}

\* The dates subquery: DATE_ADD(min_date, INTERVAL seq DAY) <= max_date
position_datesUnbounded(min_date, max_date) == min_date..max_date
position_dates(min_date, max_date) ==
    {min_date + seq : seq \in {q \in 0..(SeqRows - 1) : min_date + q <= max_date}}

position_types == {1, 2}

SandboxRow(d, ty, e, pkid) ==
    [position_date |-> d, position_type_id |-> ty,
     portfolio_entity_id |-> e[1], instrument_entity_id |-> e[2],
     share_amount |-> 0, market_value |-> 0, position_keeper_id |-> pkid]

\* The rows the INSERT ... SELECT adds
inserted_rows(txs, pkid) ==
    LET min_date == SetMin(all_dates(txs))
        max_date == SetMax(all_dates(txs))
    IN  {SandboxRow(d, ty, e, pkid) :
            d \in position_dates(min_date, max_date),
            ty \in position_types,
            e \in entity_permutations(txs)}

\* Step 3: DELETE FROM position_sandbox WHERE position_keeper_id = %s
\* the rows of a run: WHERE position_keeper_id = pkid
Tagged(sandbox, pkid) == IF pkid \in DOMAIN sandbox THEN sandbox[pkid] ELSE EmptyBag

sandbox_after_deleteNothing(sandbox, pkid) == sandbox
sandbox_after_delete(sandbox, pkid) ==
    [k \in DOMAIN sandbox \ {pkid} |-> sandbox[k]]

\* INSERT INTO position_sandbox: the table has no key over these columns, a
\* row that is inserted twice is there twice
sandbox_after_insert(sandbox, rows, pkid) ==
    [k \in DOMAIN sandbox \cup {pkid} |->
        IF k = pkid THEN Tagged(sandbox, pkid) (+) SetToBag(rows) ELSE sandbox[k]]

\* position_sandbox after generate_sandbox_rows in Full Refresh mode
generate_sandbox_table(sandbox, txs, pkid) ==
    IF all_dates(txs) = {}
    THEN sandbox
    ELSE sandbox_after_insert(sandbox_after_delete(sandbox, pkid),
                              inserted_rows(txs, pkid), pkid)

\* The return value: 0, or cursor.rowcount of the INSERT
generate_sandbox_rows(sandbox, txs, pkid) ==
    IF all_dates(txs) = {}
    THEN 0
    ELSE Cardinality(inserted_rows(txs, pkid))

\* lines 254-258: any mode other than "Full Refresh" raises NotImplementedError
\* before the first statement is executed
NotImplementedErrorNever(mode) == FALSE
NotImplementedError(mode) == mode # "Full Refresh"

\* ------------------------------------------------------------------------
\* lambda_handler: lines 640-878
\* ------------------------------------------------------------------------
StartPaths == {"/position-keeper/start", "/position-keeper/start/full-refresh",
               "/position-keeper/start/incremental"}

\* API Gateway events: path, method and the {mode} path parameter
Events ==
    {[path |-> "/position-keeper/start", httpMethod |-> "POST", mode |-> ""],
     [path |-> "/position-keeper/start/full-refresh", httpMethod |-> "POST", mode |-> "full-refresh"],
     [path |-> "/position-keeper/start/incremental", httpMethod |-> "POST", mode |-> "incremental"],
     [path |-> "/position-keeper/stop", httpMethod |-> "POST", mode |-> ""],
     [path |-> "/position-keeper/status", httpMethod |-> "GET", mode |-> ""],
     [path |-> "/position-keeper/status", httpMethod |-> "POST", mode |-> ""],
     [path |-> "/position-keeper", httpMethod |-> "GET", mode |-> ""]}

\* lines 687-697
ModeOf(mode_param) ==
    IF mode_param = "full-refresh" THEN "Full Refresh"
    ELSE IF mode_param = "incremental" THEN "Incremental"
    ELSE "Incremental"

\* lines 699-710
CommandOf(event) ==
    IF event.path \in StartPaths THEN "start"
    ELSE IF event.path = "/position-keeper/stop" THEN "stop"
    ELSE IF event.path = "/position-keeper/status" /\ event.httpMethod = "GET" THEN "status"
    ELSE "invalid"

\* datetime.isoformat()
isoformat(d) == <<"iso", d>>

NoStats == [total_messages |-> 0, successful |-> 0, failed |-> 0]

\* nothing printed about a message yet
NoLog == [id |-> 0, outcome |-> "none"]

IdleInv ==
    [pc |-> "idle", mode |-> "", holder |-> None, lock_status |-> None, expires_at |-> 0,
     position_keeper_id |-> 0, sandbox_rows |-> 0, messages |-> <<>>,
     stats |-> NoStats, cleanup_count |-> 0, raised |-> FALSE, log |-> NoLog]

NoResponse == [req |-> 0, command |-> "", statusCode |-> 0, body |-> None]

InitHandler ==
    /\ invocation = [i \in Inst |-> IdleInv]
    /\ response = NoResponse
    /\ transaction_types_cache = [i \in Inst |-> {}]
    /\ nextReq = 0

Invoked(i, event, command) ==
    /\ invocation[i].pc = "idle"
    /\ nextReq < MaxReq
    /\ CommandOf(event) = command
    /\ nextReq' = nextReq + 1

\* a step inside lambda_handler, or outside of it, returns nothing
NoReturn == response' = NoResponse

Return(i, command, statusCode, body) ==
    /\ response' = [req |-> IF invocation[i].pc = "idle" THEN nextReq + 1
                             ELSE invocation[i].holder.aws_request_id,
                    command |-> command, statusCode |-> statusCode, body |-> body]

\* lines 705-710
InvalidEndpoint(i, event) ==
    /\ Invoked(i, event, "invalid")
    /\ Return(i, "invalid", 400, [error |-> "Invalid endpoint"])
    /\ UNCHANGED <<now, lockVars, storeVars, invocation, transaction_types_cache, workerVars>>

\* lines 722-747
StatusBodyOfRow(lock_status) ==
    IF lock_status # None
    THEN [status |-> IF lock_status.is_active THEN "running" ELSE "idle",
          holder |-> lock_status.holder,
          expires_at |-> isoformat(lock_status.expires_at)]
    ELSE [status |-> "idle", holder |-> None, expires_at |-> None]
StatusBody(lock_status) ==
    IF lock_status # None /\ lock_status.is_active
    THEN [status |-> "running", holder |-> lock_status.holder,
          expires_at |-> isoformat(lock_status.expires_at)]
    ELSE [status |-> "idle", holder |-> None, expires_at |-> None]

StatusCommand(i, event) ==
    /\ Invoked(i, event, "status")
    /\ Return(i, "status", 200, StatusBody(get_lock_status(lambda_locks, LOCK_ID, now)))
    /\ UNCHANGED <<now, lockVars, storeVars, invocation, transaction_types_cache, workerVars>>

\* lines 749-753 and 760-771: get_lock_status of the stop command
StopCommand(i, event) ==
    /\ Invoked(i, event, "stop")
    /\ LET lock_status == get_lock_status(lambda_locks, LOCK_ID, now)
       IN  IF lock_status # None /\ lock_status.is_active
           THEN /\ invocation' = [invocation EXCEPT ![i] =
                        [IdleInv EXCEPT !.pc = "stop_release", !.lock_status = lock_status,
                            !.holder = [log_stream_name |-> i, aws_request_id |-> nextReq + 1]]]
                /\ NoReturn
           ELSE /\ Return(i, "stop", 200, [message |-> "Position Keeper was not running"])
                /\ UNCHANGED invocation
    /\ UNCHANGED <<now, lockVars, storeVars, transaction_types_cache, workerVars>>

\* lines 754-771: release_lock of the stop command
StopRelease(i) ==
    /\ invocation[i].pc = "stop_release"
    /\ lambda_locks' = release_lock_rows(lambda_locks, LOCK_ID, now)
    /\ Return(i, "stop", 200, [message |-> "Position Keeper stopped and lock released"])
    /\ invocation' = [invocation EXCEPT ![i] = IdleInv]
    /\ UNCHANGED <<now, callVars, storeVars, transaction_types_cache, nextReq, workerVars>>

\* lines 773-788: get_lock_status of the start command
StartCommand(i, event) ==
    /\ Invoked(i, event, "start")
    /\ LET lock_status == get_lock_status(lambda_locks, LOCK_ID, now)
       IN  IF lock_status # None /\ lock_status.is_active
           THEN /\ Return(i, "start", 409, [error |-> "Position Keeper is already running",
                                            status |-> "running",
                                            holder |-> lock_status.holder,
                                            expires_at |-> isoformat(lock_status.expires_at)])
                /\ UNCHANGED invocation
           ELSE /\ invocation' = [invocation EXCEPT ![i] =
                        [IdleInv EXCEPT !.pc = "acquire", !.mode = ModeOf(event.mode),
                            !.lock_status = lock_status,
                            !.holder = [log_stream_name |-> i, aws_request_id |-> nextReq + 1]]]
                /\ NoReturn
    /\ UNCHANGED <<now, lockVars, storeVars, transaction_types_cache, workerVars>>

\* lines 790-805: acquire_lock of the start command
StartAcquire(i) ==
    /\ invocation[i].pc = "acquire"
    /\ LET expires_at == now + LockTTL
           holder == invocation[i].holder
       IN  /\ lambda_locks' = acquire_lock_rows(lambda_locks, LOCK_ID, holder, expires_at)
           /\ IF acquire_lock(lambda_locks, LOCK_ID, holder, expires_at)
              THEN /\ invocation' = [invocation EXCEPT ![i].pc = "create_record",
                                                       ![i].expires_at = expires_at]
                   /\ NoReturn
              ELSE /\ Return(i, "start", 409,
                            [error |-> "Failed to acquire lock - Position Keeper may be starting",
                             status |-> "locked"])
                   /\ invocation' = [invocation EXCEPT ![i] = IdleInv]
    /\ UNCHANGED <<now, callVars, storeVars, transaction_types_cache, nextReq, workerVars>>

\* lines 219-223: INSERT INTO position_keepers (lock_id, holder, expires_at);
\* the id is the auto-increment key
create_position_keeper_recordTwice(rows, lock_id, holder, expires_at) ==
    rows \o <<[position_keeper_id |-> Len(rows) + 1, lock_id |-> lock_id,
               holder |-> holder, expires_at |-> expires_at],
              [position_keeper_id |-> Len(rows) + 2, lock_id |-> lock_id,
               holder |-> holder, expires_at |-> expires_at]>>
create_position_keeper_record(rows, lock_id, holder, expires_at) ==
    Append(rows, [position_keeper_id |-> Len(rows) + 1,
                  lock_id |-> lock_id,
                  holder |-> holder,
                  expires_at |-> expires_at])

\* lines 205-232: create_position_keeper_record; lastrowid is the new row's id
CreateRecord(i) ==
    /\ invocation[i].pc = "create_record"
    /\ position_keepers' = create_position_keeper_record(position_keepers, LOCK_ID,
                                invocation[i].holder, invocation[i].expires_at)
    /\ invocation' = [invocation EXCEPT ![i].pc = "load_caches",
                                        ![i].position_keeper_id = Len(position_keepers) + 1]
    /\ UNCHANGED <<now, lockVars, position_sandbox, transactions, queue, sent,
                   transaction_types_cache, nextReq, workerVars>>
    /\ NoReturn

\* lines 146-180: load_transaction_types_cache assigns one dict entry per row
load_transaction_types_cache(cache, rows) ==
    {c \in cache : \A r \in rows : r.transaction_type_id # c.transaction_type_id} \cup rows

\* lines 812-817
LoadCachesThenDrain(i) ==
    /\ invocation[i].pc = "load_caches"
    /\ transaction_types_cache' = [transaction_types_cache EXCEPT ![i] =
            load_transaction_types_cache(@, transaction_types)]
    /\ invocation' = [invocation EXCEPT ![i].pc = "receive"]
    /\ UNCHANGED <<now, lockVars, storeVars, nextReq, workerVars>>
    /\ NoReturn
LoadCaches(i) ==
    /\ invocation[i].pc = "load_caches"
    /\ transaction_types_cache' = [transaction_types_cache EXCEPT ![i] =
            load_transaction_types_cache(@, transaction_types)]
    /\ invocation' = [invocation EXCEPT ![i].pc = "generate"]
    /\ UNCHANGED <<now, lockVars, storeVars, nextReq, workerVars>>
    /\ NoReturn

\* lines 819-822, with generate_sandbox_rows raising NotImplementedError at 256-258
Generate(i) ==
    /\ invocation[i].pc = "generate"
    /\ IF NotImplementedError(invocation[i].mode)
       THEN /\ invocation' = [invocation EXCEPT ![i].pc = "release", ![i].raised = TRUE]
            /\ UNCHANGED position_sandbox
       ELSE /\ position_sandbox' = generate_sandbox_table(position_sandbox, transactions,
                                        invocation[i].position_keeper_id)
            /\ invocation' = [invocation EXCEPT ![i].pc = "receive",
                    ![i].sandbox_rows = generate_sandbox_rows(position_sandbox, transactions,
                                            invocation[i].position_keeper_id)]
    /\ UNCHANGED <<now, lockVars, position_keepers, transactions, queue, sent,
                   transaction_types_cache, nextReq, workerVars>>
    /\ NoReturn

\* ------------------------------------------------------------------------
\* Queue drain: fetch_and_process_sqs_messages, lines 546-637
\* ------------------------------------------------------------------------
MalformedBody == [raw |-> "not json"]

\* MaxNumberOfMessages of receive_message
MaxNumberOfMessages == 10

RECURSIVE InOrder(_)
\* the messages of a batch, oldest first
InOrder(S) ==
    IF S = {} THEN <<>>
    ELSE LET m == CHOOSE x \in S : \A y \in S : x.id <= y.id
         IN  <<m>> \o InOrder(S \ {m})

Visible(q) == {m \in q : ~m.in_flight}

\* lines 563-580: one receive_message call
ReceiveUntilMessage(i) ==
    /\ invocation[i].pc = "receive"
    /\ \E S \in SUBSET Visible(queue) :
            /\ S # {}
            /\ Cardinality(S) <= MaxNumberOfMessages
            /\ queue' = (queue \ S) \cup {[m EXCEPT !.in_flight = TRUE] : m \in S}
            /\ invocation' = [invocation EXCEPT ![i].pc = "process",
                                                ![i].messages = InOrder(S)]
    /\ UNCHANGED <<now, lockVars, position_keepers, position_sandbox, transactions, sent,
                   transaction_types_cache, nextReq, workerVars>>
    /\ NoReturn
Receive(i) ==
    /\ invocation[i].pc = "receive"
    /\ IF Visible(queue) = {}
       THEN /\ invocation' = [invocation EXCEPT ![i].pc = "cleanup"]
            /\ UNCHANGED queue
       ELSE \E S \in SUBSET Visible(queue) :
                /\ S # {}
                /\ Cardinality(S) <= MaxNumberOfMessages
                /\ queue' = (queue \ S) \cup {[m EXCEPT !.in_flight = TRUE] : m \in S}
                /\ invocation' = [invocation EXCEPT ![i].pc = "process",
                                                    ![i].messages = InOrder(S)]
    /\ UNCHANGED <<now, lockVars, position_keepers, position_sandbox, transactions, sent,
                   transaction_types_cache, nextReq, workerVars>>
    /\ NoReturn

CachedType(cache, transaction_type_id) ==
    {c \in cache : c.transaction_type_id = transaction_type_id}

\* dict.get(key) of a decoded message body; a key that is absent gives None,
\* which equals no id
get(message_data, key) ==
    IF key \in DOMAIN message_data THEN message_data[key] ELSE NULL

\* lines 417-543: the return value of process_transaction_message
process_transaction_message(cache, message_body) ==
    CachedType(cache, get(message_body, "transaction_type_id")) # {}

\* lines 513-529: the UPDATE of process_transaction_message
transactions_after_message(txs, cache, message_body) ==
    LET types == CachedType(cache, get(message_body, "transaction_type_id"))
    IN  IF types = {} \/ (\A ty \in types : ty.position_keeping_actions = <<>>)
        THEN txs
        ELSE [k \in 1..Len(txs) |->
                IF txs[k].transaction_id = message_body.transaction_id
                THEN [txs[k] EXCEPT !.transaction_status_id = 3,
                                    !.updated_user_id = message_body.updated_user_id]
                ELSE txs[k]]

\* delete_message(ReceiptHandle)
DeleteMessageNothing(q, id) == q
DeleteMessage(q, id) == {m \in q : m.id # id}

\* lines 582-627: one iteration of "for message in messages"
\* The counters of a drain are Python integers; the model counts up to
\* MaxStat and no further.
Counted(n) == IF n > MaxStat THEN MaxStat ELSE n

ProcessMessage(i) ==
    /\ invocation[i].pc = "process"
    /\ LET message == Head(invocation[i].messages)
           rest == Tail(invocation[i].messages)
           cache == transaction_types_cache[i]
           st == invocation[i].stats
           decoded == message.body # MalformedBody
           ok == decoded /\ process_transaction_message(cache, message.body)
       IN  /\ transactions' = IF decoded
                               THEN transactions_after_message(transactions, cache, message.body)
                               ELSE transactions
           /\ queue' = IF ok \/ ~decoded THEN DeleteMessage(queue, message.id) ELSE queue
           /\ invocation' = [invocation EXCEPT
                    ![i].messages = rest,
                    ![i].pc = IF rest = <<>> THEN "receive" ELSE "process",
                    ![i].log = [id |-> message.id,
                                outcome |-> IF ~decoded THEN "malformed"
                                            ELSE IF ok THEN "deleted" ELSE "left in queue"],
                    ![i].stats = [total_messages |-> Counted(st.total_messages + 1),
                                  successful |-> Counted(st.successful + (IF ok THEN 1 ELSE 0)),
                                  failed |-> Counted(st.failed + (IF ok THEN 0 ELSE 1))]]
    /\ UNCHANGED <<now, lockVars, position_keepers, position_sandbox, sent,
                   transaction_types_cache, nextReq, workerVars>>
    /\ NoReturn

\* lines 582-631 when sqs_client.delete_message raises. After a successful
\* handling (lines 604-612) successful was already incremented and the inner
\* "except Exception" increments failed (lines 627-628); the loop goes on.
\* In the handler of JSONDecodeError (lines 619-626) failed was incremented
\* and the exception leaves the for loop for the outer except, whose break
\* ends the drain (lines 629-631). The message stays in the queue.
ProcessMessageDeleteFails(i) ==
    /\ invocation[i].pc = "process"
    /\ LET message == Head(invocation[i].messages)
           rest == Tail(invocation[i].messages)
           cache == transaction_types_cache[i]
           st == invocation[i].stats
           decoded == message.body # MalformedBody
           ok == decoded /\ process_transaction_message(cache, message.body)
       IN  /\ ok \/ ~decoded
           /\ transactions' = IF decoded
                               THEN transactions_after_message(transactions, cache, message.body)
                               ELSE transactions
           /\ invocation' = [invocation EXCEPT
                    ![i].messages = IF decoded THEN rest ELSE <<>>,
                    ![i].pc = IF ~decoded THEN "cleanup"
                              ELSE IF rest = <<>> THEN "receive" ELSE "process",
                    ![i].log = [id |-> message.id, outcome |-> "delete failed"],
                    ![i].stats = [total_messages |-> Counted(st.total_messages + 1),
                                  successful |-> Counted(st.successful + (IF ok THEN 1 ELSE 0)),
                                  failed |-> Counted(st.failed + 1)]]
    /\ UNCHANGED <<now, lockVars, position_keepers, position_sandbox, queue, sent,
                   transaction_types_cache, nextReq, workerVars>>
    /\ NoReturn

\* lines 105-143: cleanup_orphaned_queued_transactions
queued_count(txs) == Cardinality({k \in 1..Len(txs) : txs[k].transaction_status_id = 2})

cleanup_orphaned_queued_transactionsAll(txs) ==
    [k \in 1..Len(txs) |-> [txs[k] EXCEPT !.transaction_status_id = 4]]
cleanup_orphaned_queued_transactions(txs) ==
    [k \in 1..Len(txs) |->
        IF txs[k].transaction_status_id = 2
        THEN [txs[k] EXCEPT !.transaction_status_id = 4]
        ELSE txs[k]]

\* lines 837-851
Cleanup(i) ==
    /\ invocation[i].pc = "cleanup"
    /\ transactions' = cleanup_orphaned_queued_transactions(transactions)
    /\ invocation' = [invocation EXCEPT ![i].pc = "release",
                                        ![i].cleanup_count = queued_count(transactions)]
    /\ UNCHANGED <<now, lockVars, position_keepers, position_sandbox, queue, sent,
                   transaction_types_cache, nextReq, workerVars>>
    /\ NoReturn

\* lines 853-878: the finally block, then the 200 response or the 500 of the
\* outer except
ReleaseSkippedOnError(i) ==
    /\ invocation[i].pc = "release"
    /\ lambda_locks' = IF invocation[i].raised THEN lambda_locks
                       ELSE release_lock_rows(lambda_locks, LOCK_ID, now)
    /\ IF invocation[i].raised
       THEN Return(i, "start", 500, [error |-> "Internal server error"])
       ELSE Return(i, "start", 200, [message |-> "Position Keeper process completed"])
    /\ invocation' = [invocation EXCEPT ![i] = IdleInv]
    /\ UNCHANGED <<now, callVars, storeVars, transaction_types_cache, nextReq, workerVars>>
Release(i) ==
    /\ invocation[i].pc = "release"
    /\ lambda_locks' = release_lock_rows(lambda_locks, LOCK_ID, now)
    /\ IF invocation[i].raised
       THEN Return(i, "start", 500, [error |-> "Internal server error"])
       ELSE Return(i, "start", 200,
                [message |-> "Position Keeper process completed",
                 mode |-> invocation[i].mode,
                 position_keeper_id |-> invocation[i].position_keeper_id,
                 sandbox_rows_created |-> invocation[i].sandbox_rows,
                 statistics |-> invocation[i].stats,
                 cleanup |-> invocation[i].cleanup_count])
    /\ invocation' = [invocation EXCEPT ![i] = IdleInv]
    /\ UNCHANGED <<now, callVars, storeVars, transaction_types_cache, nextReq, workerVars>>

\* the steps of the try block, lines 807-851, each of which may raise
TrySteps == {"create_record", "load_caches", "generate", "cleanup"}

\* A statement of the step raises (lines 228-231, 178-180, 376-379, 141-143):
\* its transaction is rolled back or was never committed, and control goes to
\* the finally block
StepRaises(i) ==
    /\ invocation[i].pc \in TrySteps
    /\ invocation' = [invocation EXCEPT ![i].pc = "release", ![i].raised = TRUE]
    /\ UNCHANGED <<now, lockVars, storeVars, transaction_types_cache, nextReq, workerVars>>
    /\ NoReturn

\* lines 853-856 with release_lock raising at lines 81-82: the DELETE did not
\* happen, and the outer except (lines 866-878) answers 500
ReleaseRaises(i) ==
    /\ invocation[i].pc = "release"
    /\ Return(i, "start", 500, [error |-> "Internal server error: Failed to release lock"])
    /\ invocation' = [invocation EXCEPT ![i] = IdleInv]
    /\ UNCHANGED <<now, lockVars, storeVars, transaction_types_cache, nextReq, workerVars>>

\* ------------------------------------------------------------------------
\* The producers of the queue and the queue itself
\* ------------------------------------------------------------------------
\* src/lambdas/TransactionsHandler.py, lines 551-580: INSERT INTO transactions,
\* then send_to_sqs(transaction_data, "create")
TransactionRow(id, status, ty, portfolio, contra, instrument, trade_date, settle_date, user) ==
    [transaction_id |-> id,
     portfolio_entity_id |-> portfolio,
     contra_entity_id |-> contra,
     instrument_entity_id |-> instrument,
     transaction_status_id |-> status,
     transaction_type_id |-> ty,
     trade_date |-> trade_date,
     settle_date |-> settle_date,
     updated_user_id |-> user]

\* src/lambdas/TransactionsHandler.py, lines 298-312: the fields of the message
\* body that the Position Keeper reads
message_body(row, operation) ==
    [operation |-> operation,
     transaction_id |-> row.transaction_id,
     transaction_type_id |-> row.transaction_type_id,
     transaction_status_id |-> row.transaction_status_id,
     updated_user_id |-> row.updated_user_id]

\* a message of the queue, visible until it is received
Message(id, body) == [id |-> id, in_flight |-> FALSE, body |-> body]

CreateTransaction(status, ty, portfolio, contra, instrument, trade_date, settle_date, user) ==
    /\ Len(transactions) < MaxTx
    /\ sent < MaxSent
    /\ LET row == TransactionRow(Len(transactions) + 1, status, ty, portfolio, contra,
                                  instrument, trade_date, settle_date, user)
       IN  /\ transactions' = Append(transactions, row)
           /\ queue' = queue \cup {Message(sent + 1, message_body(row, "create"))}
    /\ sent' = sent + 1
    /\ UNCHANGED <<now, lockVars, position_keepers, position_sandbox, handlerVars, workerVars>>
    /\ NoReturn

\* Any other producer may put a body on the queue that is not JSON
SendMalformed ==
    /\ sent < MaxSent
    /\ queue' = queue \cup {Message(sent + 1, MalformedBody)}
    /\ sent' = sent + 1
    /\ UNCHANGED <<now, lockVars, position_keepers, position_sandbox, transactions, handlerVars, workerVars>>
    /\ NoReturn

\* SQS: the visibility timeout of a received message runs out
VisibilityTimeout ==
    /\ \E m \in queue :
            /\ m.in_flight
            /\ queue' = (queue \ {m}) \cup {[m EXCEPT !.in_flight = FALSE]}
    /\ UNCHANGED <<now, lockVars, position_keepers, position_sandbox, transactions, sent,
                   handlerVars, workerVars>>
    /\ NoReturn

\* ------------------------------------------------------------------------
\* The CRUD layer: updates of a transaction and new transaction types
\* ------------------------------------------------------------------------
\* src/lambdas/TransactionsHandler.py, lines 662-731: PUT with a
\* transaction_status_name; the row as it is after the UPDATE goes to the queue
UpdateTransaction(k, status, user) ==
    /\ k \in 1..Len(transactions)
    /\ sent < MaxSent
    /\ LET row == [transactions[k] EXCEPT !.transaction_status_id = status,
                                          !.updated_user_id = user]
       IN  /\ transactions' = [transactions EXCEPT ![k] = row]
           /\ queue' = queue \cup {Message(sent + 1, message_body(row, "update"))}
    /\ sent' = sent + 1
    /\ UNCHANGED <<now, lockVars, position_keepers, position_sandbox, handlerVars, workerVars>>
    /\ NoReturn

\* src/lambdas/TransactionTypesHandler.py, lines 65-102: the refresh message
refresh_message(table) == [operation |-> "refresh_cache", table |-> table]

\* src/lambdas/TransactionTypesHandler.py, lines 250-258: INSERT INTO
\* transaction_types, then send_cache_refresh_to_sqs
CreateTransactionType(id) ==
    /\ \A r \in transaction_types : r.transaction_type_id # id
    /\ sent < MaxSent
    /\ transaction_types' = transaction_types \cup {TransactionTypeRow(id)}
    /\ queue' = queue \cup {Message(sent + 1, refresh_message("transaction_types"))}
    /\ sent' = sent + 1
    /\ UNCHANGED <<now, lockVars, position_keepers, position_sandbox, transactions,
                   handlerVars, poller>>
    /\ NoReturn

\* src/lambdas/TransactionTypesHandler.py, lines 296-325: PUT updates the
\* properties of the type, then send_cache_refresh_to_sqs
UpdateTransactionType(id) ==
    /\ sent < MaxSent
    /\ \E r \in transaction_types :
            /\ r.transaction_type_id = id
            /\ transaction_types' = (transaction_types \ {r}) \cup
                    {[r EXCEPT !.position_keeping_actions =
                            IF @ = <<>> THEN <<"action">> ELSE <<>>]}
    /\ queue' = queue \cup {Message(sent + 1, refresh_message("transaction_types"))}
    /\ sent' = sent + 1
    /\ UNCHANGED <<now, lockVars, position_keepers, position_sandbox, transactions,
                   handlerVars, poller>>
    /\ NoReturn

\* src/lambdas/TransactionTypesHandler.py, lines 340-358: DELETE FROM
\* transaction_types; no message is sent
DeleteTransactionType(id) ==
    /\ \E r \in transaction_types :
            /\ r.transaction_type_id = id
            /\ transaction_types' = transaction_types \ {r}
    /\ UNCHANGED <<now, lockVars, storeVars, handlerVars, poller>>
    /\ NoReturn

\* A primary key as it arrives in the JSON body: a number, or a string of
\* digits whose number is value
Number(n) == [json |-> "number", value |-> n]
String(n) == [json |-> "string", value |-> n]

\* the refresh_cache bodies process_message tells apart (positionkeeper.py
\* lines 212-230): a table, a table and a key with or without its column, or
\* no table
RefreshBodies ==
    {refresh_message(tb) : tb \in {"transaction_types", "users"}}
    \cup {[operation |-> "refresh_cache", table |-> "transaction_types",
           primary_key |-> Number(1), primary_key_column |-> "transaction_type_id"],
          [operation |-> "refresh_cache", table |-> "transaction_types",
           primary_key |-> String(1), primary_key_column |-> "transaction_type_id"],
          [operation |-> "refresh_cache", table |-> "transaction_types",
           primary_key |-> Number(1)],
          [operation |-> "refresh_cache"]}

\* Any other producer may ask for a refresh
SendRefresh(body) ==
    /\ sent < MaxSent
    /\ queue' = queue \cup {Message(sent + 1, body)}
    /\ sent' = sent + 1
    /\ UNCHANGED <<now, lockVars, position_keepers, position_sandbox, transactions,
                   handlerVars, workerVars>>
    /\ NoReturn

\* ------------------------------------------------------------------------
\* The poller: src/position_keeper/positionkeeper.py
\* ------------------------------------------------------------------------
\* minutes without a message after which the instance is stopped
IDLE_TIMEOUT == 30

\* MaxNumberOfMessages of the poller's receive_message
PollerMaxNumberOfMessages == 5

\* user_id of the HEADLESS POSITION KEEPER row of table users
SystemUsers == {99}

\* lines 289-292
idle_timeout_reachedEarly(t, last_message_time) == t - last_message_time >= IDLE_TIMEOUT - 1
idle_timeout_reached(t, last_message_time) == t - last_message_time >= IDLE_TIMEOUT

\* rows of table users: the user of the CRUD requests and the HEADLESS
\* POSITION KEEPER
UserRows == {[user_id |-> 7, email |-> "user"], [user_id |-> 99, email |-> "position keeper"]}

\* SELECT * FROM table
TableRows(types, table) == IF table = "transaction_types" THEN types ELSE UserRows

\* the columns of a table
Columns(table) ==
    IF table = "transaction_types"
    THEN {"transaction_type_id", "transaction_type_name", "position_keeping_actions"}
    ELSE {"user_id", "email"}

\* refresh_all, datacache.py lines 69-71, with the connection open at time t
Loaded(types, t) ==
    [cache |-> [tb \in CacheTables |-> SetToBag(TableRows(types, tb))],
     last_refresh |-> [tb \in CacheTables |-> t]]

\* main(), lines 395-441: the cache is loaded and the system user is found
\* before the first poll; last_message_time is set when the module is loaded
PollerStarted(datacache, user) ==
    [pc |-> "poll", messages |-> <<>>, last_message_time |-> now, cache |-> datacache,
     position_keeper_user_id |-> user, log |-> NoLog, stopped |-> FALSE]

\* datacache.py, lines 55-67: refresh replaces the cached table by the result
\* of SELECT * and notes the time; with no open connection (lines 58-61) or a
\* failing read (lines 66-67) it assigns nothing
refreshPartial(datacache, table, rows, db_ok, t) ==
    [cache |-> Put(datacache.cache, table, IF db_ok THEN SetToBag(rows) ELSE EmptyBag),
     last_refresh |-> Put(datacache.last_refresh, table, t)]
refresh(datacache, table, rows, db_ok, t) ==
    IF db_ok
    THEN [cache |-> Put(datacache.cache, table, SetToBag(rows)),
          last_refresh |-> Put(datacache.last_refresh, table, t)]
    ELSE datacache

\* WHERE {primary_key_column} = %s (line 92): MySQL compares a numeric column
\* with a string parameter by the number the string denotes
sql_equal(column_value, primary_key) == column_value = primary_key.value

\* df[primary_key_column] == primary_key on a numeric column (lines 102, 107):
\* the comparison is element by element in Python, where a str never equals
\* an int
pandas_equal(column_value, primary_key) ==
    primary_key.json = "number" /\ column_value = primary_key.value

\* df[df[primary_key_column] != primary_key]
Without(df, primary_key_column, primary_key) ==
    [r \in {x \in DOMAIN df : ~pandas_equal(x[primary_key_column], primary_key)} |-> df[r]]

\* datacache.py, lines 73-114: refresh_record. A table that is not cached yet
\* is loaded whole (lines 84-89); a read that fails, for instance because the
\* table has no such column, assigns nothing (lines 113-114); otherwise the
\* entries with the key are dropped and the rows just read are appended.
refresh_record(datacache, table, primary_key, primary_key_column, rows, db_ok, t) ==
    IF ~db_ok THEN datacache
    ELSE IF table \notin DOMAIN datacache.cache THEN refresh(datacache, table, rows, db_ok, t)
    ELSE IF primary_key_column \notin Columns(table) THEN datacache
    ELSE LET df_new_record == {r \in rows : sql_equal(r[primary_key_column], primary_key)}
             df == Without(datacache.cache[table], primary_key_column, primary_key)
         IN  [cache |-> Put(datacache.cache, table, df (+) SetToBag(df_new_record)),
              last_refresh |-> Put(datacache.last_refresh, table, t)]

\* datacache.py, lines 119-126: lookup(table, column=value); None for a table
\* that was never loaded
lookup(datacache, table, column, value) ==
    IF table \notin DOMAIN datacache.cache
    THEN None
    ELSE {r \in BagToSet(datacache.cache[table]) : r[column] = value}

\* lines 74-195: what process_transaction does with a decoded message. A
\* table that was never loaded makes the lookup raise TypeError, which lines
\* 191-194 catch.
process_transactionAnyStatus(datacache, message_data, db_ok) ==
    LET transaction_type_row == lookup(datacache, "transaction_types", "transaction_type_id",
                                       get(message_data, "transaction_type_id"))
    IN  IF "transaction_types" \notin DOMAIN datacache.cache THEN "error"
        ELSE IF transaction_type_row = {} THEN "type not found"
        ELSE IF "users" \notin DOMAIN datacache.cache THEN "error"
        ELSE IF db_ok THEN "processed" ELSE "update failed"
process_transaction(datacache, message_data, db_ok) ==
    LET transaction_status_id == get(message_data, "transaction_status_id")
        transaction_type_row == lookup(datacache, "transaction_types", "transaction_type_id",
                                       get(message_data, "transaction_type_id"))
    IN  IF "transaction_types" \notin DOMAIN datacache.cache THEN "error"
        ELSE IF transaction_type_row = {} THEN "type not found"
        ELSE IF "users" \notin DOMAIN datacache.cache THEN "error"
        ELSE IF transaction_status_id = 1 THEN "ignored"
        ELSE IF transaction_status_id \in {2, 4}
             THEN IF db_ok THEN "processed" ELSE "update failed"
        ELSE "unrecognized status"

\* line 210: message_data.get("operation"), None when the body has no
\* such key
operation_of(message_data) ==
    IF "operation" \in DOMAIN message_data THEN message_data.operation ELSE "None"

\* lines 214-216: message_data.get("primary_key_column", "id")
primary_key_column_of(message_data) ==
    IF "primary_key_column" \in DOMAIN message_data
    THEN message_data.primary_key_column ELSE "id"

\* lines 207-242: the routing of process_message
process_message(datacache, body, db_ok) ==
    IF body = MalformedBody THEN "malformed"
    ELSE IF operation_of(body) = "refresh_cache"
         THEN IF "table" \notin DOMAIN body THEN "no table"
              ELSE IF ~db_ok THEN "refresh failed"
              ELSE IF /\ "primary_key" \in DOMAIN body
                      /\ body.table \in DOMAIN datacache.cache
                      /\ primary_key_column_of(body) \notin Columns(body.table)
                   THEN "refresh failed"
              ELSE "refreshed"
    ELSE IF operation_of(body) \in {"create", "update", "delete"}
         THEN process_transaction(datacache, body, db_ok)
    ELSE "unrecognized operation"

\* lines 212-230: the cache after process_message; types is the table
\* transaction_types as it is in the database
cache_after_messageWholeTable(datacache, body, types, db_ok, t) ==
    IF body = MalformedBody \/ operation_of(body) # "refresh_cache" THEN datacache
    ELSE IF "table" \notin DOMAIN body THEN datacache
    ELSE refresh(datacache, body.table, TableRows(types, body.table), db_ok, t)
cache_after_message(datacache, body, types, db_ok, t) ==
    IF body = MalformedBody \/ operation_of(body) # "refresh_cache" THEN datacache
    ELSE IF "table" \notin DOMAIN body THEN datacache
    ELSE IF "primary_key" \in DOMAIN body
         THEN refresh_record(datacache, body.table, body.primary_key,
                             primary_key_column_of(body), TableRows(types, body.table), db_ok, t)
         ELSE refresh(datacache, body.table, TableRows(types, body.table), db_ok, t)

\* lines 172-178: UPDATE transactions SET transaction_status_id = 3,
\* updated_user_id = position_keeper_user_id WHERE transaction_id = %s
mark_processedRequeue(txs, transaction_id, user) ==
    [k \in 1..Len(txs) |->
        IF txs[k].transaction_id = transaction_id
        THEN [txs[k] EXCEPT !.transaction_status_id = 2, !.updated_user_id = user]
        ELSE txs[k]]
mark_processed(txs, transaction_id, user) ==
    [k \in 1..Len(txs) |->
        IF txs[k].transaction_id = transaction_id
        THEN [txs[k] EXCEPT !.transaction_status_id = 3, !.updated_user_id = user]
        ELSE txs[k]]

\* lines 111-185: the table transactions after process_message
transactions_after_process(txs, datacache, body, db_ok, user) ==
    IF process_message(datacache, body, db_ok) = "processed"
    THEN mark_processed(txs, get(body, "transaction_id"), user)
    ELSE txs

\* The loop without the idle check of lines 289-297
PollCycleNoIdleCheck ==
    /\ poller.pc = "poll"
    /\ \E S \in SUBSET Visible(queue) :
            /\ S # {}
            /\ Cardinality(S) <= PollerMaxNumberOfMessages
            /\ queue' = (queue \ S) \cup {[m EXCEPT !.in_flight = TRUE] : m \in S}
            /\ poller' = [poller EXCEPT !.pc = "process", !.messages = InOrder(S)]
    /\ UNCHANGED <<now, lockVars, position_keepers, position_sandbox, transactions, sent,
                   handlerVars, transaction_types>>
    /\ NoReturn

\* lines 286-309: the idle check, then one receive_message call. When
\* ec2.stop_instances raises, shutdown_instance re-raises (lines 275-277), the
\* loop logs the error and comes back to the idle check.
PollCycle ==
    /\ poller.pc = "poll"
    /\ IF idle_timeout_reached(now, poller.last_message_time)
       THEN /\ \E ec2_ok \in BOOLEAN :
                    poller' = IF ec2_ok
                              THEN [poller EXCEPT !.pc = "exited", !.stopped = TRUE]
                              ELSE poller
            /\ UNCHANGED queue
       ELSE \E S \in SUBSET Visible(queue) :
                /\ S # {}
                /\ Cardinality(S) <= PollerMaxNumberOfMessages
                /\ queue' = (queue \ S) \cup {[m EXCEPT !.in_flight = TRUE] : m \in S}
                /\ poller' = [poller EXCEPT !.pc = "process", !.messages = InOrder(S)]
    /\ UNCHANGED <<now, lockVars, position_keepers, position_sandbox, transactions, sent,
                   handlerVars, transaction_types>>
    /\ NoReturn

\* lines 311-318: process_message(msg), then delete_message
PollerProcess(db_ok) ==
    /\ poller.pc = "process"
    /\ LET msg == Head(poller.messages)
           rest == Tail(poller.messages)
           outcome == process_message(poller.cache, msg.body, db_ok)
       IN  /\ transactions' = transactions_after_process(transactions, poller.cache, msg.body,
                                    db_ok, poller.position_keeper_user_id)
           /\ poller' = [poller EXCEPT
                    !.messages = rest,
                    !.pc = IF rest = <<>> THEN "poll" ELSE "process",
                    !.last_message_time = now,
                    !.cache = cache_after_message(@, msg.body, transaction_types, db_ok, now),
                    !.log = [id |-> msg.id, outcome |-> outcome, body |-> msg.body]]
           /\ queue' = DeleteMessage(queue, msg.id)
    /\ UNCHANGED <<now, lockVars, position_keepers, position_sandbox, sent,
                   handlerVars, transaction_types>>
    /\ NoReturn

\* lines 311-326: process_message(msg) returns and sqs.delete_message raises
\* ClientError. The for loop is inside the try of the while loop, so the
\* except clause of lines 320-322 is the next statement: the message and the
\* messages of the batch that were not reached stay in flight, and the loop
\* starts again with the idle check.
PollerDeleteFails(db_ok) ==
    /\ poller.pc = "process"
    /\ LET msg == Head(poller.messages)
           outcome == process_message(poller.cache, msg.body, db_ok)
       IN  /\ transactions' = transactions_after_process(transactions, poller.cache, msg.body,
                                    db_ok, poller.position_keeper_user_id)
           /\ poller' = [poller EXCEPT
                    !.messages = <<>>,
                    !.pc = "poll",
                    !.last_message_time = now,
                    !.cache = cache_after_message(@, msg.body, transaction_types, db_ok, now),
                    !.log = [id |-> msg.id, outcome |-> outcome, body |-> msg.body]]
    /\ UNCHANGED <<now, lockVars, position_keepers, position_sandbox, queue, sent,
                   handlerVars, transaction_types>>
    /\ NoReturn

NoGen == [n |-> 0, position_keeper_id |-> 0, mode |-> "", ret |-> 0, raised |-> FALSE,
          before |-> 0]

\* connection.rollback() (line 378): the statements since the last commit
\* are undone; the DELETE of lines 297-300 and the INSERT are in one
\* transaction, committed at line 364
rollbackKeepsDelete(committed, uncommitted) == uncommitted
rollback(committed, uncommitted) == committed

\* lines 296-379: the table after a Full Refresh whose bulk INSERT raised
generate_sandbox_table_failed(sandbox, pkid) ==
    rollback(sandbox, sandbox_after_delete(sandbox, pkid))

\* A direct call generate_sandbox_rows(connection, position_keeper_id,
\* "Full Refresh") whose INSERT raises after the DELETE was executed
CallGenerateFails(pkid) ==
    /\ lastGen.n < MaxGen
    /\ all_dates(transactions) # {}
    /\ lastGen' = [n |-> lastGen.n + 1, position_keeper_id |-> pkid, mode |-> "Full Refresh",
                   ret |-> 0, raised |-> TRUE,
                   before |-> BagCardinality(Tagged(position_sandbox, pkid))]
    /\ position_sandbox' = generate_sandbox_table_failed(position_sandbox, pkid)
    /\ UNCHANGED <<now, lambda_locks, lastCall, lockHist, winners, losers,
                   position_keepers, transactions, queue, sent,
                   invocation, transaction_types_cache, nextReq, workerVars>>
    /\ response' = NoResponse

\* A direct call generate_sandbox_rows(connection, position_keeper_id, mode)
CallGenerate(pkid, mode) ==
    /\ lastGen.n < MaxGen
    /\ IF NotImplementedError(mode)
       THEN /\ lastGen' = [n |-> lastGen.n + 1, position_keeper_id |-> pkid, mode |-> mode,
                           ret |-> 0, raised |-> TRUE,
                           before |-> BagCardinality(Tagged(position_sandbox, pkid))]
            /\ UNCHANGED position_sandbox
       ELSE /\ lastGen' = [n |-> lastGen.n + 1, position_keeper_id |-> pkid, mode |-> mode,
                           ret |-> generate_sandbox_rows(position_sandbox, transactions, pkid),
                           raised |-> FALSE,
                           before |-> BagCardinality(Tagged(position_sandbox, pkid))]
            /\ position_sandbox' = generate_sandbox_table(position_sandbox, transactions, pkid)
    /\ UNCHANGED <<now, lambda_locks, lastCall, lockHist, winners, losers,
                   position_keepers, transactions, queue, sent,
                   invocation, transaction_types_cache, nextReq, workerVars>>
    /\ response' = NoResponse

\* ------------------------------------------------------------------------
\* Store-level callers: any caller may call any of the three operations
\* ------------------------------------------------------------------------
Callers == {1, 2, 3}
LockIds == {LOCK_ID, "other lock"}
TTLs == {LockTTL}

NoCall == [n |-> 0, op |-> "none", caller |-> 0, lock_id |-> "", ret |-> None,
           after |-> "none", expired |-> FALSE, expires_at |-> 0]

Call(op, c, l, ret, e) ==
    [n |-> lastCall.n + 1, op |-> op, caller |-> c, lock_id |-> l, ret |-> ret,
     after |-> lockHist[l],
     expired |-> \E r \in RowsOf(lambda_locks, l) : ~is_active(r.expires_at, now),
     expires_at |-> e]

\* no lock row, no call made yet
InitCalls ==
    /\ now = 0
    /\ lambda_locks = {}
    /\ lastCall = NoCall
    /\ lockHist = [l \in LockIds |-> "none"]
    /\ winners = [l \in LockIds |-> {}]
    /\ losers = [l \in LockIds |-> {}]
    /\ lastGen = NoGen

InitLock ==
    /\ InitCalls
    /\ InitStore
    /\ InitHandler
    /\ InitWorkers

CallAcquire(c, l, ttl) ==
    /\ lastCall.n < MaxCalls
    /\ LET ok == acquire_lock(lambda_locks, l, c, now + ttl)
       IN  /\ lambda_locks' = acquire_lock_rows(lambda_locks, l, c, now + ttl)
           /\ lastCall' = Call("acquire", c, l, ok, now + ttl)
           /\ winners' = IF ok THEN [winners EXCEPT ![l] = @ \cup {<<lastCall.n + 1, c>>}]
                               ELSE winners
           /\ losers' = IF ok THEN losers
                              ELSE [losers EXCEPT ![l] = @ \cup {<<lastCall.n + 1, c>>}]
    /\ lockHist' = [lockHist EXCEPT ![l] = "acquire"]
    /\ UNCHANGED <<now, storeVars, handlerVars, lastGen, workerVars>>
    /\ NoReturn

CallRelease(c, l) ==
    /\ lastCall.n < MaxCalls
    /\ lambda_locks' = release_lock_rows(lambda_locks, l, now)
    /\ lastCall' = Call("release", c, l, release_lock(lambda_locks, l, now), 0)
    /\ lockHist' = [lockHist EXCEPT ![l] =
                        IF \E r \in RowsOf(lambda_locks, l) : ~is_active(r.expires_at, now)
                        THEN "release_expired" ELSE "release"]
    /\ winners' = IF RowsOf(lambda_locks', l) = {} THEN [winners EXCEPT ![l] = {}] ELSE winners
    /\ losers' = IF RowsOf(lambda_locks', l) = {} THEN [losers EXCEPT ![l] = {}] ELSE losers
    /\ UNCHANGED <<now, storeVars, handlerVars, lastGen, workerVars>>
    /\ NoReturn

CallStatus(c, l) ==
    /\ lastCall.n < MaxCalls
    /\ lastCall' = Call("status", c, l, get_lock_status(lambda_locks, l, now), 0)
    /\ UNCHANGED <<now, lambda_locks, lockHist, winners, losers, storeVars, handlerVars, lastGen, workerVars>>
    /\ NoReturn

\* d minutes pass
Tick(d) ==
    /\ now + d <= MaxTime
    /\ now' = now + d
    /\ UNCHANGED <<lockVars, storeVars, handlerVars, workerVars>>
    /\ NoReturn

NextLock ==
    \/ \E c \in Callers, l \in LockIds, ttl \in TTLs : CallAcquire(c, l, ttl)
    \/ \E c \in Callers, l \in LockIds : CallRelease(c, l)
    \/ \E c \in Callers, l \in LockIds : CallStatus(c, l)
    \/ Tick(1)

SpecLock == InitLock /\ [][NextLock]_vars

\* ------------------------------------------------------------------------
\* The commands racing across Lambda containers
\* ------------------------------------------------------------------------
TypeIds == {1, 2}
Users == {7}
Portfolios == {10}
Contras == {11}
Instruments == {20}
TradeDates == {1}
SettleDates == {2}

\* What the producers left behind before the first command: nothing, a
\* transaction saved as QUEUED with its "create" message, or a message that is
\* not JSON.
InitQueued ==
    \/ transactions = <<>> /\ queue = {} /\ sent = 0
    \/ \E ty \in TypeIds, p \in Portfolios, c \in Contras, n \in Instruments,
          td \in TradeDates, sd \in SettleDates, u \in Users :
            LET row == TransactionRow(1, 2, ty, p, c, n, td, sd, u)
            IN  /\ transactions = <<row>>
                /\ queue = {Message(1, message_body(row, "create"))}
                /\ sent = 1
    \/ transactions = <<>> /\ queue = {Message(1, MalformedBody)} /\ sent = 1

Next ==
    \/ \E i \in Inst, event \in Events :
            \/ InvalidEndpoint(i, event)
            \/ StatusCommand(i, event)
            \/ StopCommand(i, event)
            \/ StartCommand(i, event)
    \/ \E i \in Inst :
            \/ StopRelease(i)
            \/ StartAcquire(i)
            \/ CreateRecord(i)
            \/ LoadCaches(i)
            \/ Generate(i)
            \/ Receive(i)
            \/ ProcessMessage(i)
            \/ Cleanup(i)
            \/ Release(i)
    \/ VisibilityTimeout
    \/ Tick(LockTTL)

\* The commands compare now only with expires_at = (time of acquisition) +
\* LockTTL, so the clock of this specification advances a whole TTL at a time.
Init ==
    /\ InitCalls
    /\ position_keepers = <<>>
    /\ position_sandbox = EmptyBag
    /\ InitQueued
    /\ InitHandler
    /\ InitWorkers

Spec == Init /\ [][Next]_vars

\* ------------------------------------------------------------------------
\* The handler with failing steps: the commands race as in Spec, the clock
\* stands still, and any step of a run, the release included, may raise.
\* ------------------------------------------------------------------------
NextRun ==
    \/ \E i \in Inst, event \in Events :
            \/ InvalidEndpoint(i, event)
            \/ StatusCommand(i, event)
            \/ StopCommand(i, event)
            \/ StartCommand(i, event)
    \/ \E i \in Inst :
            \/ StopRelease(i)
            \/ StartAcquire(i)
            \/ CreateRecord(i)
            \/ LoadCaches(i)
            \/ Generate(i)
            \/ Receive(i)
            \/ ProcessMessage(i)
            \/ Cleanup(i)
            \/ Release(i)
            \/ StepRaises(i)
            \/ ReleaseRaises(i)

SpecRun == Init /\ [][NextRun]_vars

\* ------------------------------------------------------------------------
\* The sandbox generator on its own: any transactions table, any run id
\* ------------------------------------------------------------------------
\* a date more than SeqRows days after the others
FarDate == SeqRows + 3

GenTrades == {1, 3}
GenSettles == {3}
GenPortfolios == {10}
GenContras == {NULL, 11}
GenInstruments == {20}
GenModes == {"Full Refresh", "Incremental"}

\* transactions a few days apart, and one that settles FarDate
GenTx ==
    [portfolio_entity_id : GenPortfolios, contra_entity_id : GenContras,
     instrument_entity_id : GenInstruments, trade_date : GenTrades,
     settle_date : GenSettles]
    \cup [portfolio_entity_id : GenPortfolios, contra_entity_id : {11},
          instrument_entity_id : GenInstruments, trade_date : {1},
          settle_date : {FarDate}]

\* the rows of table transactions made of the given column values
TransactionsOf(f) ==
    [k \in 1..Len(f) |->
        TransactionRow(k, 2, 1, f[k].portfolio_entity_id, f[k].contra_entity_id,
                       f[k].instrument_entity_id, f[k].trade_date, f[k].settle_date, 7)]

InitGen ==
    /\ InitCalls
    /\ position_keepers = <<>>
    /\ position_sandbox = EmptyBag
    /\ \E n \in 0..MaxGenTx : \E f \in [1..n -> GenTx] : transactions = TransactionsOf(f)
    /\ queue = {}
    /\ sent = 0
    /\ InitHandler
    /\ InitWorkers

RunIds == {1, 2}

NextGen == \E pkid \in RunIds, mode \in GenModes : CallGenerate(pkid, mode)

SpecGen == InitGen /\ [][NextGen]_vars

\* ------------------------------------------------------------------------
\* The two consumers of the queue and the CRUD layer: runs started on one
\* Lambda container, the poller, and the handlers that write transactions
\* and transaction types
\* ------------------------------------------------------------------------
WorkerStatuses == {1, 2}
WorkerEvents == {e \in Events : e.mode = "full-refresh"}

\* the poller has started, with transaction type 1 in the table
InitConsumers ==
    /\ InitCalls
    /\ InitStore
    /\ InitHandler
    /\ transaction_types = {TransactionTypeRow(1)}
    /\ \E u \in SystemUsers : poller = PollerStarted(Loaded({TransactionTypeRow(1)}, now), u)

Crud ==
    \/ \E status \in WorkerStatuses, ty \in {r.transaction_type_id : r \in transaction_types},
          p \in Portfolios, c \in Contras, n \in Instruments,
          td \in TradeDates, sd \in SettleDates, u \in Users :
            CreateTransaction(status, ty, p, c, n, td, sd, u)
    \/ \E k \in 1..MaxTx, status \in WorkerStatuses, u \in Users :
            UpdateTransaction(k, status, u)
    \/ \E id \in TypeIds : CreateTransactionType(id)
    \/ SendMalformed

\* one run: the first invocation is a start command, and its steps
Run(i) ==
    \/ nextReq = 0 /\ \E event \in WorkerEvents : StartCommand(i, event)
    \/ StartAcquire(i)
    \/ CreateRecord(i)
    \/ LoadCaches(i)
    \/ Generate(i)
    \/ Receive(i)
    \/ ProcessMessage(i)
    \/ Cleanup(i)
    \/ Release(i)

NextWorkers ==
    \/ Crud
    \/ Run(1)
    \/ PollCycle
    \/ \E db_ok \in BOOLEAN : PollerProcess(db_ok)

SpecWorkers == InitConsumers /\ [][NextWorkers]_vars

\* ------------------------------------------------------------------------
\* Properties of the lock store (checked under SpecLock)
\* ------------------------------------------------------------------------
CallStep == lastCall'.n # lastCall.n

\* C1: among the acquire calls racing on one lock_id since its row was last
\* absent, exactly one returned True and all the others returned False, and
\* lambda_locks never holds more than one row per lock_id.
C1_MutualExclusion ==
    \A l \in LockIds :
        /\ Cardinality(RowsOf(lambda_locks, l)) <= 1
        /\ Cardinality(winners[l]) <= 1
        /\ (losers[l] # {} => Cardinality(winners[l]) = 1)
        /\ (RowsOf(lambda_locks, l) # {} <=> Cardinality(winners[l]) = 1)

\* Three different callers raced on LOCK_ID: one won, two lost.
C1_Witness ==
    /\ Cardinality(winners[LOCK_ID]) = 1
    /\ Cardinality(losers[LOCK_ID]) = 2
    /\ Cardinality({p[2] : p \in winners[LOCK_ID] \cup losers[LOCK_ID]}) = 3

\* C5: acquire returns False whenever a row for the lock_id exists, expired
\* or not, and then leaves the table as it was; it returns True only when it
\* inserted the row.
C5_AcquireFailsOnExistingRow ==
    [][(CallStep /\ lastCall'.op = "acquire") =>
        LET l == lastCall'.lock_id
            row == LockRow(l, lastCall'.caller, lastCall'.expires_at)
        IN  /\ (RowsOf(lambda_locks, l) # {} =>
                    lastCall'.ret = FALSE /\ lambda_locks' = lambda_locks)
            /\ (lastCall'.ret = TRUE =>
                    /\ RowsOf(lambda_locks, l) = {}
                    /\ lambda_locks' = lambda_locks \cup {row})]_vars

\* An acquire on a lock_id whose row had expired returned False.
C5_Witness ==
    /\ lastCall.op = "acquire"
    /\ lastCall.expired
    /\ lastCall.ret = FALSE
    /\ \E r \in RowsOf(lambda_locks, lastCall.lock_id) : r.holder # lastCall.caller

LockIsActive == \E r \in lambda_locks : r.lock_id = LOCK_ID /\ r.expires_at > now

\* between having acquired the lock and the end of the drain
ProcessingPcs == {"create_record", "load_caches", "generate", "receive", "process"}
Processing(i) == invocation[i].pc \in ProcessingPcs

\* the step is the get_lock_status of a new command
ReadStep(command) ==
    /\ nextReq' = nextReq + 1
    /\ \/ response'.command = command
       \/ command = "start" /\ \E i \in Inst : invocation[i].pc = "idle" /\ invocation'[i].pc = "acquire"
       \/ command = "stop" /\ \E i \in Inst : invocation[i].pc = "idle" /\ invocation'[i].pc = "stop_release"

\* the step is the acquire_lock of start command i
AcquireStep(i) == invocation[i].pc = "acquire" /\ invocation'[i].pc # "acquire"

NoRunEffect ==
    /\ storeVars' = storeVars
    /\ lambda_locks' = lambda_locks
    /\ transaction_types_cache' = transaction_types_cache

\* C2: at most one instance is between having acquired the lock and having
\* finished draining the queue.
C2_ExclusiveExecution == Cardinality({i \in Inst : Processing(i)}) <= 1

\* C3: a start command that finds the lock active, or whose INSERT loses the
\* race, returns 409 and performs no run: no Run Record, sandbox row, queue
\* message or transaction changes and the lock row stays as it is.
C3_ConflictPerformsNoRun ==
    [][/\ (ReadStep("start") => NoRunEffect)
       /\ (ReadStep("start") /\ LockIsActive => response'.statusCode = 409)
       /\ \A i \in Inst :
            (AcquireStep(i) /\ RowsOf(lambda_locks, LOCK_ID) # {}) =>
                /\ response'.statusCode = 409
                /\ response'.req = invocation[i].holder.aws_request_id
                /\ invocation'[i] = IdleInv
       /\ (response'.statusCode = 409 =>
                /\ response'.command = "start"
                /\ NoRunEffect
                /\ RowsOf(lambda_locks, LOCK_ID) # {}
                /\ \A i \in Inst : invocation'[i].pc \in {invocation[i].pc, "idle"})]_vars

\* A start command lost the race on the INSERT against a run that is in
\* flight and whose lock is still active.
C3_Witness ==
    /\ response.statusCode = 409
    /\ response.body.status = "locked"
    /\ LockIsActive
    /\ \E i \in Inst : Processing(i)
    /\ position_keepers # <<>>

\* C4: a lock that is not active never blocks a new run: a start command
\* whose status read reported is_active = False acquires the lock, unless the
\* lock is active again by the time of its INSERT.
C4_InactiveLockNeverBlocks ==
    [][\A i \in Inst :
        (/\ AcquireStep(i)
         /\ invocation[i].lock_status # None
         /\ ~invocation[i].lock_status.is_active
         /\ ~LockIsActive)
            => (invocation'[i].pc = "create_record" /\ response'.statusCode # 409)]_vars

\* C7: stop releases the lock and reports success exactly when the lock was
\* active when the command read it; otherwise it reports "was not running"
\* and leaves lambda_locks alone; it never changes a transaction, a sandbox
\* row or a queue message.
C7_Stop ==
    [][/\ (ReadStep("stop") =>
                /\ storeVars' = storeVars
                /\ lambda_locks' = lambda_locks
                /\ IF LockIsActive
                   THEN response' = NoResponse
                   ELSE /\ response'.statusCode = 200
                        /\ response'.body = [message |-> "Position Keeper was not running"])
       /\ \A i \in Inst :
            /\ (invocation[i].pc = "idle" /\ invocation'[i].pc = "stop_release") => LockIsActive
            /\ (invocation[i].pc = "stop_release" /\ invocation'[i].pc # "stop_release") =>
                    /\ RowsOf(lambda_locks', LOCK_ID) = {}
                    /\ storeVars' = storeVars
                    /\ response'.statusCode = 200
                    /\ response'.req = invocation[i].holder.aws_request_id
                    /\ response'.body = [message |-> "Position Keeper stopped and lock released"]
       /\ (response'.command = "stop" /\
            response'.body = [message |-> "Position Keeper stopped and lock released"]) =>
                \E i \in Inst : invocation[i].pc = "stop_release"]_vars

\* A stop command released the lock of a run that is in flight.
C7_Witness ==
    /\ response.command = "stop"
    /\ response.body = [message |-> "Position Keeper stopped and lock released"]
    /\ lambda_locks = {}
    /\ \E i \in Inst : Processing(i)

\* C8 as stated: status says "running" exactly when the lock is active, and
\* whenever a lock row exists the response carries the row's holder and
\* expires_at.
C8_StatusVerbatim ==
    response.command = "status" =>
        /\ (response.body.status = "running" <=> LockIsActive)
        /\ \A r \in RowsOf(lambda_locks, LOCK_ID) :
                /\ response.body.holder = r.holder
                /\ response.body.expires_at = isoformat(r.expires_at)

\* C8 as amended: status says "running" exactly when the lock is active; it
\* carries the row's holder and expires_at when the lock is active and None
\* for both otherwise; it modifies no state.
C8_StatusReport ==
    [][response'.command = "status" =>
        /\ response'.statusCode = 200
        /\ (response'.body.status = "running" <=> LockIsActive)
        /\ (response'.body.status = "idle" <=> ~LockIsActive)
        /\ (LockIsActive =>
                \A r \in RowsOf(lambda_locks, LOCK_ID) :
                    /\ response'.body.holder = r.holder
                    /\ response'.body.expires_at = isoformat(r.expires_at))
        /\ (~LockIsActive =>
                response'.body.holder = None /\ response'.body.expires_at = None)
        /\ UNCHANGED <<now, lockVars, storeVars, invocation, transaction_types_cache, workerVars>>]_vars

\* status answered "idle" while the row of a run in flight had expired
C8_Witness ==
    /\ response.command = "status"
    /\ response.body.status = "idle"
    /\ RowsOf(lambda_locks, LOCK_ID) # {}
    /\ \E i \in Inst : Processing(i)

\* C9: a start command ends in 200 or in 409.
C9_StartOutcomes ==
    response.command = "start" => response.statusCode \in {200, 409}

\* ------------------------------------------------------------------------
\* Properties of the sandbox generator (checked under SpecGen)
\* ------------------------------------------------------------------------
GenStep == lastGen'.n # lastGen.n

TxDates(txs) == UNION {{txs[k].trade_date, txs[k].settle_date} : k \in 1..Len(txs)}
TxPairs(txs) ==
    UNION {{<<txs[k].portfolio_entity_id, txs[k].instrument_entity_id>>,
            <<txs[k].contra_entity_id, txs[k].instrument_entity_id>>} : k \in 1..Len(txs)}
DayCount(txs) == SetMax(TxDates(txs)) - SetMin(TxDates(txs)) + 1

\* one zero-valued row per date of [minDate, maxDate], position type and pair
Grid(txs, pkid) ==
    {[position_date |-> d, position_type_id |-> ty,
      portfolio_entity_id |-> e[1], instrument_entity_id |-> e[2],
      share_amount |-> 0, market_value |-> 0, position_keeper_id |-> pkid] :
        d \in SetMin(TxDates(txs))..SetMax(TxDates(txs)), ty \in {1, 2}, e \in TxPairs(txs)}

\* C10: after generate(runId, FullRefresh) the rows tagged runId are exactly
\* the grid date x position type x pair, all zero-valued, and the returned
\* count is N x 2 x M; with no transactions it returns 0 and inserts nothing.
C10_SandboxGrid ==
    [][(GenStep /\ lastGen'.mode = "Full Refresh") =>
        IF transactions = <<>>
        THEN lastGen'.ret = 0 /\ ~lastGen'.raised /\ position_sandbox' = position_sandbox
        ELSE /\ Tagged(position_sandbox', lastGen'.position_keeper_id)
                    = SetToBag(Grid(transactions, lastGen'.position_keeper_id))
             /\ lastGen'.ret = DayCount(transactions) * 2 * Cardinality(TxPairs(transactions))]_vars

\* ------------------------------------------------------------------------
\* The poller and its cache: both transaction types exist, the poller has
\* started with its cache loaded, or with the database unreachable at start;
\* types are updated and deleted, transactions are created with any status,
\* and refresh messages of every shape arrive.
\* ------------------------------------------------------------------------
PollerStatuses == {1, 2, 3}

InitPoller ==
    /\ InitCalls /\ InitStore /\ InitHandler
    /\ transaction_types = {TransactionTypeRow(1), TransactionTypeRow(2)}
    /\ \E u \in SystemUsers, datacache \in {Loaded(transaction_types, now), NeverLoaded} :
            poller = PollerStarted(datacache, u)

NextPoller ==
    \/ \E status \in PollerStatuses, p \in Portfolios, c \in Contras,
          n \in Instruments, td \in TradeDates, sd \in SettleDates, u \in Users :
            CreateTransaction(status, 1, p, c, n, td, sd, u)
    \/ UpdateTransactionType(1)
    \/ DeleteTransactionType(2)
    \/ \E body \in RefreshBodies : SendRefresh(body)
    \/ Tick(MaxTime)
    \/ PollCycle
    \/ \E db_ok \in BOOLEAN : PollerProcess(db_ok)

SpecPoller == InitPoller /\ [][NextPoller]_vars

\* ------------------------------------------------------------------------
\* The poller against the clock: messages arrive, minutes pass, the poller
\* handles what it receives and stops its instance when it has been idle.
\* A run of the drain may take the lock meanwhile.
\* ------------------------------------------------------------------------
\* minutes that pass between two steps
Waits == {IDLE_TIMEOUT - 1, IDLE_TIMEOUT}

\* datetime.now() of the idle check and of process_message moves on
Wait(d) ==
    /\ now + d <= MaxClock
    /\ now' = now + d
    /\ UNCHANGED <<lockVars, storeVars, handlerVars, workerVars>>
    /\ NoReturn

\* acquire_lock(LOCK_ID, holder, ttl) of a run, when no run holds the lock
LockTaken == lambda_locks = {} /\ CallAcquire(1, LOCK_ID, LockTTL)

NextIdle ==
    \/ Crud
    \/ LockTaken
    \/ PollCycle
    \/ \E db_ok \in BOOLEAN : PollerProcess(db_ok)
    \/ \E d \in Waits : Wait(d)

SpecIdle == InitConsumers /\ [][NextIdle]_vars

\* C11: with the transactions table unchanged, a Full Refresh for a run id
\* that already has rows leaves exactly the same rows tagged with it, each
\* once, and returns their number; two runs in a row for the same run id
\* return the same count.
C11_SandboxIdempotence ==
    [][(GenStep /\ lastGen'.mode = "Full Refresh") =>
        LET pkid == lastGen'.position_keeper_id
        IN  /\ Tagged(position_sandbox, pkid) # EmptyBag =>
                    /\ Tagged(position_sandbox', pkid) = Tagged(position_sandbox, pkid)
                    /\ lastGen'.ret = BagCardinality(Tagged(position_sandbox, pkid))
            /\ (lastGen.position_keeper_id = pkid /\ lastGen.mode = "Full Refresh") =>
                    lastGen'.ret = lastGen.ret
            /\ BagCardinality(Tagged(position_sandbox', pkid))
                    = Cardinality(BagToSet(Tagged(position_sandbox', pkid)))]_vars

\* A Full Refresh ran for a run id whose rows were already in the sandbox.
C11_Witness ==
    /\ lastGen.n >= 2
    /\ lastGen.mode = "Full Refresh"
    /\ lastGen.before > 0
    /\ lastGen.ret = lastGen.before
    /\ BagCardinality(Tagged(position_sandbox, lastGen.position_keeper_id)) = lastGen.ret

\* C12: generate with any mode other than Full Refresh raises the
\* not-implemented error and neither deletes nor inserts a sandbox row.
C12_IncrementalNotImplemented ==
    [][(GenStep /\ lastGen'.mode # "Full Refresh") =>
        /\ lastGen'.raised
        /\ lastGen'.ret = 0
        /\ position_sandbox' = position_sandbox]_vars

\* Incremental was asked for a run id that has rows, on a table with
\* transactions: the rows are still there.
C12_Witness ==
    /\ lastGen.mode = "Incremental"
    /\ lastGen.raised
    /\ transactions # <<>>
    /\ lastGen.before > 0
    /\ BagCardinality(Tagged(position_sandbox, lastGen.position_keeper_id)) = lastGen.before

\* ------------------------------------------------------------------------
\* Properties of message handling (checked under SpecWorkers)
\* ------------------------------------------------------------------------
\* the step handles the first message of the batch of Lambda container i
DrainHandles(i) ==
    /\ invocation[i].pc = "process"
    /\ Len(invocation'[i].messages) < Len(invocation[i].messages)

\* the step handles the first message of the poller's batch
PollerHandles ==
    /\ poller.pc = "process"
    /\ Len(poller'.messages) < Len(poller.messages)

\* the body is JSON and its operation is create or update
TransactionMessage(body) ==
    body # MalformedBody /\ operation_of(body) \in {"create", "update"}

InQueue(q, id) == \E m \in q : m.id = id

\* a handler's cache has no row for the transaction type of the body
\* the transaction types the poller has cached
PollerTypes ==
    IF "transaction_types" \notin DOMAIN poller.cache.cache
    THEN {} ELSE BagToSet(poller.cache.cache["transaction_types"])

TypeAbsent(cache, body) ==
    \A c \in cache : c.transaction_type_id # get(body, "transaction_type_id")

\* C13: a create/update message naming a transaction type that is absent
\* from the handler's cache is still in the queue after it was handled, in
\* the drain and in the poller.
C13_MissingTypeRetried ==
    [][/\ \A i \in Inst :
            LET m == Head(invocation[i].messages)
            IN  (/\ DrainHandles(i)
                 /\ TransactionMessage(m.body)
                 /\ TypeAbsent(transaction_types_cache[i], m.body))
                    => InQueue(queue', m.id)
       /\ LET m == Head(poller.messages)
          IN  (/\ PollerHandles
               /\ TransactionMessage(m.body)
               /\ TypeAbsent(PollerTypes, m.body))
                    => InQueue(queue', m.id)]_vars

\* C14: when the handling of a message raised in the poller, the failed
\* UPDATE to PROCESSED included, the message is still in the queue.
C14_DeleteOnlyWhenHandled ==
    [][PollerHandles =>
        (poller'.log.outcome \in {"update failed", "refresh failed"}
            => InQueue(queue', Head(poller.messages).id))]_vars

\* C15: a message whose body is not JSON is deleted, changes no cache and no
\* transaction, and the worker goes on with its batch, in the drain and in
\* the poller.
C15_MalformedDeleted ==
    [][/\ \A i \in Inst :
            (DrainHandles(i) /\ Head(invocation[i].messages).body = MalformedBody) =>
                /\ ~InQueue(queue', Head(invocation[i].messages).id)
                /\ transactions' = transactions
                /\ transaction_types_cache' = transaction_types_cache
                /\ poller'.cache = poller.cache
                /\ ~invocation'[i].raised
                /\ invocation'[i].pc \in {"process", "receive"}
       /\ (PollerHandles /\ Head(poller.messages).body = MalformedBody) =>
                /\ ~InQueue(queue', Head(poller.messages).id)
                /\ transactions' = transactions
                /\ transaction_types_cache' = transaction_types_cache
                /\ poller'.cache = poller.cache
                /\ poller'.pc \in {"process", "poll"}]_vars

\* The drain and the poller have each handled a body that is not JSON, and
\* neither message is left.
C15_Witness ==
    /\ poller.log.outcome = "malformed"
    /\ \E i \in Inst : /\ invocation[i].log.outcome = "malformed"
                        /\ invocation[i].log.id # poller.log.id
    /\ queue = {}

\* the stored status and user of the transaction a body names
Stored(txs, body) == txs[get(body, "transaction_id")]

\* C16: when a create/update message with status NEW (2) or AMENDED (4) was
\* handled successfully, the stored transaction is PROCESSED and the write
\* carries the system user, in the drain and in the poller.
C16_ProcessedBySystemUser ==
    [][/\ \A i \in Inst :
            LET m == Head(invocation[i].messages)
            IN  (/\ DrainHandles(i)
                 /\ TransactionMessage(m.body)
                 /\ get(m.body, "transaction_status_id") \in {2, 4}
                 /\ invocation'[i].log.outcome = "deleted") =>
                    /\ Stored(transactions', m.body).transaction_status_id = 3
                    /\ Stored(transactions', m.body).updated_user_id \in SystemUsers
       /\ LET m == Head(poller.messages)
          IN  (/\ PollerHandles
               /\ TransactionMessage(m.body)
               /\ get(m.body, "transaction_status_id") \in {2, 4}
               /\ poller'.log.outcome = "processed") =>
                    /\ Stored(transactions', m.body).transaction_status_id = 3
                    /\ Stored(transactions', m.body).updated_user_id \in SystemUsers]_vars

\* a step of the Position Keeper: the CRUD layer sends a message with every
\* write it makes
KeeperStep == sent' = sent

\* C17: the only status values the Position Keeper writes to a transaction
\* are PROCESSED (3) and UNKNOWN (4).
C17_WritesOnlyProcessedOrUnknown ==
    [][KeeperStep =>
        /\ Len(transactions') = Len(transactions)
        /\ \A k \in 1..Len(transactions) :
                transactions'[k].transaction_status_id # transactions[k].transaction_status_id
                    => transactions'[k].transaction_status_id \in {3, 4}]_vars

\* The sweep of a run wrote UNKNOWN to a transaction and the poller then
\* wrote PROCESSED to it.
C17_Witness ==
    /\ \E i \in Inst : invocation[i].pc = "release" /\ invocation[i].cleanup_count = 1
    /\ poller.log.outcome = "processed"
    /\ \E k \in 1..Len(transactions) :
            /\ transactions[k].transaction_status_id = 3
            /\ transactions[k].updated_user_id \in SystemUsers

\* C18: a transaction whose stored status is INCOMPLETE (1) when its message
\* is handled is still INCOMPLETE afterwards, in the drain and in the poller.
C18_IncompleteStaysIncomplete ==
    [][/\ \A i \in Inst :
            LET m == Head(invocation[i].messages)
            IN  (/\ DrainHandles(i)
                 /\ TransactionMessage(m.body)
                 /\ Stored(transactions, m.body).transaction_status_id = 1) =>
                    Stored(transactions', m.body).transaction_status_id = 1
       /\ LET m == Head(poller.messages)
          IN  (/\ PollerHandles
               /\ TransactionMessage(m.body)
               /\ Stored(transactions, m.body).transaction_status_id = 1) =>
                    Stored(transactions', m.body).transaction_status_id = 1]_vars

\* the step is the orphan sweep of run i
SweepStep(i) == invocation[i].pc = "cleanup" /\ invocation'[i].pc # "cleanup"

\* C19: the sweep turns every QUEUED (2) transaction into UNKNOWN (4) and
\* changes nothing else of it, leaves every other transaction as it was, and
\* returns the number of transactions it changed.
C19_OrphanSweep ==
    [][\A i \in Inst : SweepStep(i) =>
        /\ Len(transactions') = Len(transactions)
        /\ \A k \in 1..Len(transactions) :
                /\ transactions'[k].transaction_status_id # 2
                /\ transactions[k].transaction_status_id = 2 =>
                        transactions'[k] = [transactions[k] EXCEPT !.transaction_status_id = 4]
                /\ transactions[k].transaction_status_id # 2 =>
                        transactions'[k] = transactions[k]
        /\ invocation'[i].cleanup_count =
                Cardinality({k \in 1..Len(transactions) : transactions'[k] # transactions[k]})
        /\ UNCHANGED <<queue, sent, position_keepers, position_sandbox, lambda_locks>>]_vars

\* A sweep has just changed a transaction to UNKNOWN.
C19_Witness ==
    \E i \in Inst :
        /\ invocation[i].pc = "release"
        /\ invocation[i].cleanup_count >= 1
        /\ \E k \in 1..Len(transactions) : transactions[k].transaction_status_id = 4

\* the step stops the instance: shutdown_instance, then exit(0)
ShutsDown == poller.pc # "exited" /\ poller'.pc = "exited"

\* C20: the poller stops its instance only when at least IDLE_TIMEOUT minutes
\* have passed since the last message of any kind was received, every
\* handled message (a cache refresh included) resets that time, and the
\* shutdown leaves the lock table as it is.
C20_IdleShutdown ==
    [][/\ PollerHandles => poller'.last_message_time = now
       /\ ShutsDown =>
            /\ poller'.stopped
            /\ now - poller.last_message_time >= IDLE_TIMEOUT
            /\ lambda_locks' = lambda_locks]_vars

\* The poller handled a cache refresh some minutes after it started, and shut
\* down later while a run's lock row was in the table.
C20_Witness ==
    /\ poller.pc = "exited"
    /\ poller.log.outcome = "refreshed"
    /\ poller.last_message_time > 0
    /\ lambda_locks # {}

\* invocation i is inside a run: it acquired the lock and has not returned
InRun(i) == invocation[i].pc \in {"create_record", "load_caches", "generate", "receive",
                                  "process", "cleanup", "release"}

\* the step is the successful INSERT INTO lambda_locks of invocation i
Acquires(i) ==
    /\ invocation[i].pc = "acquire"
    /\ invocation'[i].pc # "acquire"
    /\ lambda_locks' # lambda_locks

RunOrder ==
    {<<"acquire", "create_record">>, <<"create_record", "load_caches">>,
     <<"load_caches", "generate">>, <<"generate", "receive">>,
     <<"receive", "process">>, <<"process", "receive">>, <<"receive", "cleanup">>,
     <<"cleanup", "release">>, <<"release", "idle">>}
     \cup {<<a, "release">> : a \in TrySteps}

RunReturns(i) == InRun(i) /\ invocation'[i].pc = "idle"

NextBatch ==
    \/ \E status \in WorkerStatuses, p \in Portfolios, c \in Contras,
          n \in Instruments, td \in TradeDates, sd \in SettleDates, u \in Users :
            CreateTransaction(status, 1, p, c, n, td, sd, u)
    \/ SendMalformed
    \/ PollCycle
    \/ \E db_ok \in BOOLEAN : PollerProcess(db_ok)
    \/ \E db_ok \in BOOLEAN : PollerDeleteFails(db_ok)
    \/ VisibilityTimeout

SpecBatch == InitConsumers /\ [][NextBatch]_vars

\* C25: every message of a received batch is handled in the cycle that
\* received it: when the poller is done with one message of the batch,
\* whether its handling or its deletion failed or not, it goes on with the
\* rest of the batch.
C25_BatchIndependence ==
    [][(poller.pc = "process" /\ poller'.log # poller.log) =>
            poller'.messages = Tail(poller.messages)]_vars

\* ------------------------------------------------------------------------
\* The poller under a fair scheduler: messages arrive, the loop of
\* poll_sqs_forever keeps running, and the clock advances. The poller reads
\* the clock only to compare now - last_message_time with IDLE_TIMEOUT, so
\* the clock is not advanced further once that difference has reached it.
\* ------------------------------------------------------------------------
Elapse(d) ==
    /\ poller.pc # "exited"
    /\ now - poller.last_message_time < IDLE_TIMEOUT
    /\ now' = now + d
    /\ UNCHANGED <<lockVars, storeVars, handlerVars, workerVars>>
    /\ NoReturn

NextIdleLive ==
    \/ \E status \in WorkerStatuses, p \in Portfolios, c \in Contras,
          n \in Instruments, td \in TradeDates, sd \in SettleDates, u \in Users :
            CreateTransaction(status, 1, p, c, n, td, sd, u)
    \/ SendMalformed
    \/ PollCycle
    \/ \E db_ok \in BOOLEAN : PollerProcess(db_ok)
    \/ \E d \in Waits : Elapse(d)

\* The while loop of poll_sqs_forever never ends by itself: an error of
\* receive_message or of stop_instances is logged and the loop goes round
\* again after 10 s (lines 320-326), which is a step that changes nothing.
\* Weak fairness of PollCycle therefore says that the loop keeps running and
\* that a call that stays possible, the stop call included, succeeds in the
\* end; weak fairness of PollerProcess that a batch is worked off; weak
\* fairness of Elapse that time passes.
FairPoller ==
    /\ WF_vars(PollCycle)
    /\ WF_vars(\E db_ok \in BOOLEAN : PollerProcess(db_ok))
    /\ WF_vars(\E d \in Waits : Elapse(d))

SpecIdleLive == InitConsumers /\ [][NextIdleLive]_vars /\ FairPoller

\* C21: if from some point on the queue has no message to deliver and the
\* poller holds none, the poller eventually stops its instance and exits.
C21_IdleShutdownLive ==
    (<>[](Visible(queue) = {} /\ poller.messages = <<>>)) =>
        <>(poller.pc = "exited" /\ poller.stopped)

\* The poller has exited after it handled a message, IDLE_TIMEOUT minutes or
\* more after that message.
C21_Witness ==
    /\ poller.pc = "exited"
    /\ poller.stopped
    /\ poller.log.id # 0
    /\ poller.last_message_time > 0
    /\ now - poller.last_message_time >= IDLE_TIMEOUT

\* the body asks for a cache refresh
RefreshMessage(body) == body # MalformedBody /\ operation_of(body) = "refresh_cache"

\* the body asks for the refresh of one record of a table
RecordRefresh(body) ==
    RefreshMessage(body) /\ "table" \in DOMAIN body /\ "primary_key" \in DOMAIN body

\* the entries of a cached table for the key: those the store would return
\* for it
Entries(df, column, primary_key) ==
    [r \in {x \in DOMAIN df : sql_equal(x[column], primary_key)} |-> df[r]]

\* the entries of a cached table for every other key
OtherEntries(df, column, primary_key) ==
    [r \in {x \in DOMAIN df : ~sql_equal(x[column], primary_key)} |-> df[r]]

\* the rows of the table of a body as they are in the database
StoreRows(body) == TableRows(transaction_types, body.table)

\* C22: when refresh_record succeeds on a table that is already cached, the
\* cache holds the database's row for the key exactly once if there is one and
\* no entry for the key otherwise, and every entry with another key is as it
\* was.
C22_RecordRefresh ==
    [][LET body == Head(poller.messages).body
           column == primary_key_column_of(body)
       IN  (/\ PollerHandles
            /\ RecordRefresh(body)
            /\ body.table \in DOMAIN poller.cache.cache
            /\ poller'.log.outcome = "refreshed") =>
                LET before == poller.cache.cache[body.table]
                    after == poller'.cache.cache[body.table]
                    found == {r \in StoreRows(body) : sql_equal(r[column], body.primary_key)}
                IN  /\ Entries(after, column, body.primary_key) = SetToBag(found)
                    /\ Cardinality(found) <= 1
                    /\ OtherEntries(after, column, body.primary_key)
                            = OtherEntries(before, column, body.primary_key)]_vars

\* C23: when the connection is unavailable or the read fails during refresh
\* or refresh_record, nothing is raised to the caller, and every cached table
\* and every last-refreshed time is what it was.
C23_RefreshFailureKeepsSnapshot ==
    [][(/\ PollerHandles
        /\ RefreshMessage(Head(poller.messages).body)
        /\ poller'.log.outcome = "refresh failed") =>
            /\ poller'.cache = poller.cache
            /\ poller'.pc \in {"process", "poll"}]_vars

\* A refresh of the whole table failed after the table changed in the
\* database: the poller still has the rows it loaded at start, with the time
\* of that load.
C23_Witness ==
    /\ poller.log.outcome = "refresh failed"
    /\ ~RecordRefresh(poller.log.body)
    /\ now > 0
    /\ poller.cache = Loaded({TransactionTypeRow(1), TransactionTypeRow(2)}, 0)
    /\ transaction_types # {TransactionTypeRow(1), TransactionTypeRow(2)}

\* the cached tables and the stored statuses after the poller handled a body
Handled(state, body, db_ok) ==
    [datacache |-> cache_after_message(state.datacache, body, transaction_types, db_ok, now),
     transactions |-> transactions_after_process(state.transactions, state.datacache, body,
                            db_ok, poller.position_keeper_user_id)]

\* what redelivery may not change: the cached rows and the stored statuses
Contents(state) ==
    [cache |-> state.datacache.cache,
     statuses |-> [k \in 1..Len(state.transactions) |->
                        state.transactions[k].transaction_status_id]]

\* C24: in every state, for every message of the queue, handling it twice
\* leaves the same cached rows and the same transaction statuses as handling
\* it once, the database being otherwise unchanged.
C24_RedeliveryIdempotent ==
    \A m \in queue, db_ok \in BOOLEAN :
        LET state == [datacache |-> poller.cache, transactions |-> transactions]
            once == Handled(state, m.body, db_ok)
        IN  Contents(Handled(once, m.body, db_ok)) = Contents(once)

\* C29: a refresh_cache message with a table and a key makes the poller call
\* refresh_record for that table and key; with a table and no key, refresh
\* for that table; with no table it changes nothing in the cache. No other
\* table of the cache changes, the message is deleted, and no transaction
\* changes.
C29_RefreshRouting ==
    [][LET body == Head(poller.messages).body
           before == poller.cache
           after == poller'.cache
       IN  (PollerHandles /\ RefreshMessage(body)) =>
            /\ ~InQueue(queue', Head(poller.messages).id)
            /\ transactions' = transactions
            /\ "table" \notin DOMAIN body => after = before
            /\ "table" \in DOMAIN body =>
                /\ \A tb \in CacheTables \ {body.table} :
                        /\ tb \in DOMAIN after.cache <=> tb \in DOMAIN before.cache
                        /\ tb \in DOMAIN before.cache =>
                                /\ after.cache[tb] = before.cache[tb]
                                /\ after.last_refresh[tb] = before.last_refresh[tb]
                /\ \E db_ok \in BOOLEAN :
                        after = IF "primary_key" \in DOMAIN body
                                THEN refresh_record(before, body.table, body.primary_key,
                                                    primary_key_column_of(body),
                                                    StoreRows(body), db_ok, now)
                                ELSE refresh(before, body.table, StoreRows(body), db_ok, now)]_vars

\* A record refresh was handled and deleted while the rest of its table
\* stayed stale, and the other table was not touched.
C29_Witness ==
    /\ poller.log.outcome = "refreshed"
    /\ RecordRefresh(poller.log.body)
    /\ ~InQueue(queue, poller.log.id)
    /\ "users" \in DOMAIN poller.cache.cache
    /\ poller.cache.cache["transaction_types"] # SetToBag(transaction_types)
    /\ poller.cache.last_refresh["transaction_types"] > poller.cache.last_refresh["users"]

\* C30: when the poller handles a create/update message whose status is
\* INCOMPLETE, or any status other than NEW (2) and AMENDED (4), no
\* transaction and no cache entry changes, and the message is deleted.
C30_OtherStatusNoWrite ==
    [][LET m == Head(poller.messages)
       IN  (/\ PollerHandles
            /\ TransactionMessage(m.body)
            /\ get(m.body, "transaction_status_id") \notin {2, 4}) =>
                /\ transactions' = transactions
                /\ poller'.cache = poller.cache
                /\ ~InQueue(queue', m.id)]_vars

\* The poller has handled the message of an INCOMPLETE transaction of a type
\* it knows: the transaction is still INCOMPLETE, written by its user.
C30_Witness ==
    /\ poller.log.outcome = "ignored"
    /\ ~InQueue(queue, poller.log.id)
    /\ Stored(transactions, poller.log.body).transaction_status_id = 1
    /\ Stored(transactions, poller.log.body).updated_user_id \in Users

\* ------------------------------------------------------------------------
\* The poller and messages of other operations: besides the "create"
\* messages of the CRUD layer, any producer may send a message about a stored
\* transaction with another operation or with none
\* ------------------------------------------------------------------------
OtherOperations == {"delete", "archive"}

\* the bodies about a stored transaction whose operation is none of
\* refresh_cache, create and update
OtherBodies(txs) ==
    {message_body(txs[k], operation) : k \in 1..Len(txs), operation \in OtherOperations}
    \cup {[transaction_id |-> txs[k].transaction_id,
           transaction_type_id |-> txs[k].transaction_type_id,
           transaction_status_id |-> txs[k].transaction_status_id,
           updated_user_id |-> txs[k].updated_user_id] : k \in 1..Len(txs)}

SendOther(body) ==
    /\ sent < MaxSent
    /\ queue' = queue \cup {Message(sent + 1, body)}
    /\ sent' = sent + 1
    /\ UNCHANGED <<now, lockVars, position_keepers, position_sandbox, transactions,
                   handlerVars, workerVars>>
    /\ NoReturn

NextOps ==
    \/ \E status \in PollerStatuses, p \in Portfolios, c \in Contras,
          n \in Instruments, td \in TradeDates, sd \in SettleDates, u \in Users :
            CreateTransaction(status, 1, p, c, n, td, sd, u)
    \/ \E body \in OtherBodies(transactions) : SendOther(body)
    \/ PollCycle
    \/ \E db_ok \in BOOLEAN : PollerProcess(db_ok)

SpecOps == InitConsumers /\ [][NextOps]_vars

\* C31: when the poller handles a message whose operation is none of
\* refresh_cache, create and update, no cache entry and no transaction
\* changes, and the message is deleted from the queue.
C31_OtherOperationIgnored ==
    [][LET m == Head(poller.messages)
       IN  (/\ PollerHandles
            /\ m.body # MalformedBody
            /\ operation_of(m.body) \notin {"refresh_cache", "create", "update"}) =>
                /\ transactions' = transactions
                /\ poller'.cache = poller.cache
                /\ ~InQueue(queue', m.id)]_vars

\* C32: when a drain handles a create/update message whose cached type has
\* no position_keeping_actions, the message is deleted and the transaction is
\* marked PROCESSED (3), so that the sweep of the run finds nothing to do
\* for it.
C32_NoActionsFullyHandled ==
    [][\A i \in Inst :
        LET m == Head(invocation[i].messages)
            types == CachedType(transaction_types_cache[i],
                                get(m.body, "transaction_type_id"))
        IN  (/\ DrainHandles(i)
             /\ TransactionMessage(m.body)
             /\ types # {}
             /\ \A ty \in types : ty.position_keeping_actions = <<>>) =>
                /\ ~InQueue(queue', m.id)
                /\ Stored(transactions', m.body).transaction_status_id = 3]_vars

\* ------------------------------------------------------------------------
\* A warm Lambda container and the poller while transaction types are
\* deleted: start commands run one after the other in container 1, whose
\* module-level caches outlive each invocation
\* ------------------------------------------------------------------------
NextWarm ==
    \/ \E event \in WorkerEvents : StartCommand(1, event)
    \/ StartAcquire(1)
    \/ CreateRecord(1)
    \/ LoadCaches(1)
    \/ Generate(1)
    \/ Receive(1)
    \/ ProcessMessage(1)
    \/ Cleanup(1)
    \/ Release(1)
    \/ DeleteTransactionType(2)
    \/ SendRefresh(refresh_message("transaction_types"))
    \/ PollCycle
    \/ \E db_ok \in BOOLEAN : PollerProcess(db_ok)

SpecWarm == InitPoller /\ [][NextWarm]_vars

\* the keys of a set of transaction type rows
TypeKeys(rows) == {r.transaction_type_id : r \in rows}

\* C33: right after a successful load of the transaction types, by a run
\* of the handler or by a table refresh of the poller, the keys of the cache
\* are the keys of the table.
C33_FullRefreshReplaces ==
    [][/\ \A i \in Inst :
            (invocation[i].pc = "load_caches" /\ invocation'[i].pc = "generate") =>
                TypeKeys(transaction_types_cache'[i]) = TypeKeys(transaction_types)
       /\ LET body == Head(poller.messages).body
          IN  (/\ PollerHandles
               /\ RefreshMessage(body)
               /\ ~RecordRefresh(body)
               /\ poller'.log.outcome = "refreshed") =>
                    TypeKeys(BagToSet(poller'.cache.cache["transaction_types"]))
                        = TypeKeys(transaction_types)]_vars

MessageLeft(q, transaction_id) ==
    \E m \in q : /\ m.body # MalformedBody
                  /\ "transaction_id" \in DOMAIN m.body
                  /\ m.body.transaction_id = transaction_id

\* C35: every transaction the sweep of a run changes to UNKNOWN has no
\* message left in the queue, visible or in flight, when the sweep runs.
C35_SweepOnlyOrphans ==
    [][\A i \in Inst : SweepStep(i) =>
        \A k \in 1..Len(transactions) :
            transactions'[k].transaction_status_id # transactions[k].transaction_status_id =>
                ~MessageLeft(queue, transactions[k].transaction_id)]_vars

\* ------------------------------------------------------------------------
\* One run under a fair scheduler: transactions and a new transaction type
\* arrive, the run of container 1 goes through its steps, and a message that
\* was received and not deleted may become visible again at any time
\* ------------------------------------------------------------------------
NextDrain ==
    \/ \E ty \in {r.transaction_type_id : r \in transaction_types},
          p \in Portfolios, c \in Contras, n \in Instruments,
          td \in TradeDates, sd \in SettleDates, u \in Users :
            CreateTransaction(2, ty, p, c, n, td, sd, u)
    \/ CreateTransactionType(2)
    \/ SendMalformed
    \/ Run(1)
    \/ VisibilityTimeout

\* The while loop of fetch_and_process_sqs_messages goes on by itself:
\* receive_message returns after WaitTimeSeconds at the latest and every
\* message of a batch is worked off, which weak fairness of the two steps
\* says. Nothing is assumed about when a visibility timeout runs out.
FairDrain == WF_vars(Receive(1)) /\ WF_vars(ProcessMessage(1))

SpecDrain == InitConsumers /\ [][NextDrain]_vars /\ FairDrain

\* the run of container 1 is in the loop of fetch_and_process_sqs_messages
InDrain == invocation[1].pc \in {"receive", "process"}

C37_ReleasesOwnLock ==
    [][\A i \in Inst :
        (invocation[i].pc = "release" /\ invocation'[i].pc # "release") =>
            \A r \in lambda_locks \ lambda_locks' : r.holder = invocation[i].holder]_vars

\* C38: while a start run is between its acquire and its release and its
\* lock row is still in the table (no stop command removed it), every status
\* command answers "running" with the holder of that run.
C38_StatusRunningWhileInFlight ==
    [][response'.command = "status" =>
        \A i \in Inst :
            (/\ InRun(i)
             /\ \E r \in RowsOf(lambda_locks, LOCK_ID) : r.holder = invocation[i].holder) =>
                /\ response'.body.status = "running"
                /\ response'.body.holder = invocation[i].holder]_vars

\* ------------------------------------------------------------------------
\* The sandbox generator with a failing INSERT: Full Refresh is called for
\* any run id over any transactions table, and the call may fail after its
\* DELETE
\* ------------------------------------------------------------------------
NextRegen ==
    \/ \E pkid \in RunIds : CallGenerate(pkid, "Full Refresh")
    \/ \E pkid \in RunIds : CallGenerateFails(pkid)

SpecRegen == InitGen /\ [][NextRegen]_vars

\* C39: a Full Refresh for one run id changes no sandbox row of another run
\* id, and a Full Refresh that raises leaves the sandbox table as it was.
C39_RegenerationAtomicAndScoped ==
    [][lastGen'.n # lastGen.n =>
        /\ \A pkid \in RunIds \ {lastGen'.position_keeper_id} :
                Tagged(position_sandbox', pkid) = Tagged(position_sandbox, pkid)
        /\ lastGen'.raised => position_sandbox' = position_sandbox]_vars

\* A Full Refresh has failed for a run id that had rows in the sandbox: its
\* rows are all there.
C39_Witness ==
    /\ lastGen.raised
    /\ lastGen.mode = "Full Refresh"
    /\ lastGen.before > 0
    /\ BagCardinality(Tagged(position_sandbox, lastGen.position_keeper_id)) = lastGen.before

\* ------------------------------------------------------------------------
\* One run whose delete_message calls may fail
\* ------------------------------------------------------------------------
NextStats ==
    \/ \E status \in WorkerStatuses, p \in Portfolios, c \in Contras,
          n \in Instruments, td \in TradeDates, sd \in SettleDates, u \in Users :
            CreateTransaction(status, 1, p, c, n, td, sd, u)
    \/ SendMalformed
    \/ Run(1)
    \/ ProcessMessageDeleteFails(1)

SpecStats == InitConsumers /\ [][NextStats]_vars

\* C40: in the statistics of a drain every handled message is counted once,
\* as successful or as failed: total_messages = successful + failed.
C40_StatisticsConsistent ==
    \A i \in Inst :
        LET st == invocation[i].stats
        IN  (st.total_messages < MaxStat /\ st.successful < MaxStat /\ st.failed < MaxStat) =>
                st.total_messages = st.successful + st.failed

====
